---- MODULE Spec2Model ----
(***************************************************************************)
(* local-linker: dependency graph construction, order resolution and the   *)
(* build/link pipeline of linkAllPackages.                                 *)
(*                                                                         *)
(* Package names are the integers 1..n, declared in the order 1, 2, .., n  *)
(* (Object.keys order of the parsed .localpackages object).  Ext is the    *)
(* name of a registry package that is not declared locally.                *)
(***************************************************************************)
EXTENDS Integers, Sequences, FiniteSets, TLC

\* ---------------------------------------------------------------- bounds
MaxPkgs == 3        \* at most this many declared packages
MaxEdges == 2       \* manifest dependency entries overall, order resolution
MaxPipelineEdges == 1 \* the same for the whole pipeline, whose behaviours
                    \* multiply by the collaborators' outcomes
MaxFailures == 1    \* at most this many failing collaborator commands per run
MaxStack == 5       \* call-stack depth at which visit() would overflow
MaxDecls == 3       \* declarations in all .localpackages files together
MaxDirs == 2        \* package directories besides the project root
MaxAnnotations == 2 \* annotations after the path of a config line
MaxEvents == 3      \* change events delivered to the watcher
MaxLines == 2       \* lines of the root config file under main
MaxBuildPkgs == 2   \* declared packages where the build's inputs vary

Ext == 0            \* a dependency name that is not a declared package
Null == <<>>        \* null / not yet returned; a value v is held as <<v>>

\* A string is a sequence of character codes.  Punctuation has its ASCII
\* code; the letters that names, paths, commands and patterns are made of
\* are the codes below 10.
NL == 10
SP == 32
HASH == 35
COMMA == 44
DOT == 46
SLASH == 47
COLON == 58
EQ == 61
LBRACKET == 91
RBRACKET == 93
STAR == 42

\* the absolute path of directory number d; number 0 is the project root,
\* where the run starts
DirPath(d) == <<SLASH, d>>
ProjectRoot == DirPath(0)

VARIABLES
  localPackages,        \* declared package names, in declaration order
  fs,                   \* name -> package.json on disk: status and the three lists
  resolveDependencies,  \* the flag passed to linkAllPackages
  pc,                   \* position of the control thread
  graph,                \* Map<string, PackageInfo>, as a sequence in insertion order
  visited, temp, order, \* locals of getTopologicalOrder
  stack,                \* activation records of visit(): [name, localDeps, i]
  rootIdx,              \* position of the for-loop over graph.keys()
  cycleWarnings,        \* names passed to "Circular dependency detected"
  backEdges,            \* history: the edges <<from, to>> that were warned about
  missingWarnings,      \* lists passed to "Some packages were not included ..."
  packageOrder,         \* linkAllPackages' packageOrder
  idx,                  \* position of the for-loop over packageOrder
  allSuccessful,        \* linkAllPackages' allSuccessful
  calls,                \* collaborator calls made so far: [op, name, ok]
  failures,             \* number of failed collaborator commands so far
  result,               \* return value of linkAllPackages, Null before it returns
  configs,              \* directory path -> its .localpackages: [status, text]
  declared,             \* directory path -> what readConfig() returns there
  failing,              \* the kinds of command that fail in this environment
  cwd,                  \* process.cwd()
  processed,            \* linkRecursiveDependencies' processed set of keys
  rstack,               \* activations of processPackageRecursively inside their loop
  rootI,                \* position of linkRecursiveDependencies' for-loop
  expansions,           \* history: nested configs read, with their call sites
  steps,                \* history: build/link steps of the expansion
  line,                 \* the argument of parsePackageLine
  parsed,               \* its return value, <<>> before the call
  srcDirs,              \* the directories named src that exist
  watchPaths,           \* watchPackages' watchPaths: [name, path]
  debounce,             \* watchPackages' debounce: name -> timer id
  timers,               \* armed timers in the order they will fire: [id, name, delay]
  nextTimer,            \* the id the next setTimeout returns
  events,               \* history: change events and rebuilds
  recursive,            \* main's recursive: --recursive / -r / recursiveLinks
  watchMode,            \* --watch or -w is among the arguments
  phases                \* history: the phases main has called

vars == <<localPackages, fs, resolveDependencies, pc, graph, visited, temp,
          order, stack, rootIdx, cycleWarnings, backEdges, missingWarnings,
          packageOrder, idx, allSuccessful, calls, failures, result,
          configs, declared, failing, cwd, processed, rstack, rootI,
          expansions, steps, line, parsed,
          srcDirs, watchPaths, debounce, timers, nextTimer, events,
          recursive, watchMode, phases>>

dfsVars == <<visited, temp, order, stack, rootIdx, cycleWarnings, backEdges>>
pipeVars == <<idx, allSuccessful, calls, failures, result>>
inputVars == <<localPackages, fs, resolveDependencies>>
recVars == <<configs, declared, failing, cwd, processed, rstack, rootI,
             expansions, steps>>
parseVars == <<line, parsed>>
watchVars == <<srcDirs, watchPaths, debounce, timers, nextTimer, events>>
mainVars == <<recursive, watchMode, phases>>
linkVars == <<graph, dfsVars, missingWarnings, packageOrder, pipeVars>>

\* ------------------------------------------------------------ sequences
Range(s) == {s[i] : i \in 1..Len(s)}

Reverse(s) == [i \in 1..Len(s) |-> s[Len(s) + 1 - i]]

\* Array.prototype.filter
RECURSIVE Filter(_, _)
Filter(s, keep) ==
  IF s = <<>> THEN <<>>
  ELSE (IF Head(s) \in keep THEN <<Head(s)>> ELSE <<>>) \o Filter(Tail(s), keep)

\* ------------------------------------------------- the inputs of one run
Kinds == 1..3   \* 1 dependencies, 2 devDependencies, 3 peerDependencies

Unreadable == {"missing", "unparseable"}

\* A manifest entry <<p, k, d>>: package p names d in its list of kind k.
Entries(readable, n) == readable \X Kinds \X ((1..n) \cup {Ext})

EntryKey(t) == 3 * t[1] + t[2]

\* Entry sequences of length at most m, grouped by package and list, in which
\* no list names the same dependency twice (Object.keys yields distinct keys).
RECURSIVE EntrySeqs(_, _, _)
EntrySeqs(readable, n, m) ==
  IF m = 0 THEN {<<>>}
  ELSE LET prev == EntrySeqs(readable, n, m - 1)
           longest == {s \in prev : Len(s) = m - 1}
           ext == {x \in longest \X Entries(readable, n) :
                     /\ x[2] \notin Range(x[1])
                     /\ x[1] # <<>> =>
                          EntryKey(x[1][Len(x[1])]) <= EntryKey(x[2])}
       IN prev \cup {Append(x[1], x[2]) : x \in ext}

RECURSIVE ListOf(_, _, _)
ListOf(es, p, k) ==
  IF es = <<>> THEN <<>>
  ELSE (IF Head(es)[1] = p /\ Head(es)[2] = k THEN <<Head(es)[3]>> ELSE <<>>)
       \o ListOf(Tail(es), p, k)

\* the text of scripts.build in the manifests that have one: "tsc"
BuildScript == <<116, 115, 99>>

PackageJson(es, p, status) ==
  [status |-> status,
   buildScript |-> <<BuildScript>>,
   dependencies |-> ListOf(es, p, 1),
   devDependencies |-> ListOf(es, p, 2),
   peerDependencies |-> ListOf(es, p, 3)]

\* the recursive expansion has not been started
RecIdle ==
  /\ configs = <<>> /\ declared = <<>> /\ failing = {}
  /\ cwd = ProjectRoot /\ processed = {} /\ rstack = <<>>
  /\ rootI = 1 /\ expansions = <<>> /\ steps = <<>>

\* parsePackageLine is not under study
ParseIdle == line = <<>> /\ parsed = <<>>

\* main is not under study
MainIdle == recursive = FALSE /\ watchMode = FALSE /\ phases = <<>>

\* watchPackages has not been called
WatchIdle ==
  /\ srcDirs = {} /\ watchPaths = <<>> /\ debounce = <<>> /\ timers = <<>>
  /\ nextTimer = 1 /\ events = <<>>

\* linkAllPackages has not been called
LinkIdle ==
  /\ graph = <<>>
  /\ visited = {} /\ temp = {} /\ order = <<>> /\ stack = <<>> /\ rootIdx = 1
  /\ cycleWarnings = <<>> /\ backEdges = <<>> /\ missingWarnings = <<>>
  /\ packageOrder = <<>>
  /\ idx = 1 /\ allSuccessful = TRUE /\ calls = <<>> /\ failures = 0
  /\ result = Null

InitWith(maxEntries) ==
  /\ RecIdle
  /\ MainIdle
  /\ ParseIdle
  /\ WatchIdle
  /\ LinkIdle
  /\ \E n \in 0..MaxPkgs :
       /\ localPackages = [i \in 1..n |-> i]
       /\ \E st \in [1..n -> {"ok"} \cup Unreadable] :
            \E es \in EntrySeqs({p \in 1..n : st[p] = "ok"}, n, maxEntries) :
              fs = [p \in 1..n |-> PackageJson(es, p, st[p])]
  /\ resolveDependencies \in BOOLEAN
  /\ pc = "start"

\* The pipeline treats a manifest that is missing and one that does not
\* parse alike (buildPackage returns false for both), so its runs start with
\* the missing kind only; the order resolution keeps both.
Init ==
  /\ InitWith(MaxPipelineEdges)
  /\ \A p \in DOMAIN fs : fs[p].status # "unparseable"

\* ------------------------------------------------------ dependency graph
\* the package directory itself does not exist
NoPath == "nopath"

Readable(name) == fs[name].status \notin Unreadable \cup {NoPath}

getPackageInfo(name) ==
  IF ~Readable(name) THEN Null
  ELSE <<[name |-> name,
          dependencies |-> fs[name].dependencies,
          devDependencies |-> fs[name].devDependencies,
          peerDependencies |-> fs[name].peerDependencies]>>

\* Variant: the first unreadable manifest ends the construction.
RECURSIVE buildDependencyGraphAborting(_, _)
buildDependencyGraphAborting(names, g) ==
  IF names = <<>> THEN g
  ELSE LET info == getPackageInfo(Head(names))
       IN IF info = Null THEN g
          ELSE buildDependencyGraphAborting(Tail(names), Append(g, info[1]))

RECURSIVE buildDependencyGraphFrom(_, _)
buildDependencyGraphFrom(names, g) ==
  IF names = <<>> THEN g
  ELSE LET info == getPackageInfo(Head(names))
       IN buildDependencyGraphFrom(Tail(names),
            IF info # Null THEN Append(g, info[1]) ELSE g)

buildDependencyGraph(names) == buildDependencyGraphFrom(names, <<>>)

graphKeys(g) == [i \in 1..Len(g) |-> g[i].name]

graphHas(g, name) == \E i \in 1..Len(g) : g[i].name = name

graphGet(g, name) == g[CHOOSE i \in 1..Len(g) : g[i].name = name]

allDepsOf(node) ==
  node.dependencies \o node.devDependencies \o node.peerDependencies

\* Variant: every name of the three lists is visited, local or not.
localDepsOfUnfiltered(g, name) ==
  IF graphHas(g, name) THEN allDepsOf(graphGet(g, name)) ELSE <<>>

localDepsOf(g, name) ==
  IF graphHas(g, name)
  THEN Filter(allDepsOf(graphGet(g, name)), Range(graphKeys(g)))
  ELSE <<>>

\* --------------------------------------------------- getTopologicalOrder
Top == stack[Len(stack)]

\* Variant: visit() without the in-progress test.
visitEnterNoCycleCheck(name, st) ==
  IF name \in visited
  THEN /\ stack' = st
       /\ UNCHANGED <<temp, cycleWarnings, backEdges, pc>>
  ELSE IF Len(st) >= MaxStack
  THEN /\ pc' = "thrown"
       /\ stack' = st
       /\ UNCHANGED <<temp, cycleWarnings, backEdges>>
  ELSE /\ temp' = temp \cup {name}
       /\ stack' = Append(st, [name |-> name,
                               localDeps |-> localDepsOf(graph, name),
                               i |-> 1])
       /\ UNCHANGED <<cycleWarnings, backEdges, pc>>

\* Variant: visit() without the already-done test.
visitEnterNoVisitedCheck(name, st) ==
  IF name \in temp
  THEN /\ cycleWarnings' = Append(cycleWarnings, name)
       /\ backEdges' = Append(backEdges, <<st[Len(st)].name, name>>)
       /\ stack' = st
       /\ UNCHANGED <<temp, pc>>
  ELSE IF Len(st) >= MaxStack
  THEN /\ pc' = "thrown"
       /\ stack' = st
       /\ UNCHANGED <<temp, cycleWarnings, backEdges>>
  ELSE /\ temp' = temp \cup {name}
       /\ stack' = Append(st, [name |-> name,
                               localDeps |-> localDepsOf(graph, name),
                               i |-> 1])
       /\ UNCHANGED <<cycleWarnings, backEdges, pc>>

\* Variant: visit() returns from an in-progress node without a warning.
visitEnterSilentCycle(name, st) ==
  IF name \in temp
  THEN /\ backEdges' = Append(backEdges, <<st[Len(st)].name, name>>)
       /\ stack' = st
       /\ UNCHANGED <<temp, cycleWarnings, pc>>
  ELSE IF name \in visited
  THEN /\ stack' = st
       /\ UNCHANGED <<temp, cycleWarnings, backEdges, pc>>
  ELSE IF Len(st) >= MaxStack
  THEN /\ pc' = "thrown"
       /\ stack' = st
       /\ UNCHANGED <<temp, cycleWarnings, backEdges>>
  ELSE /\ temp' = temp \cup {name}
       /\ stack' = Append(st, [name |-> name,
                               localDeps |-> localDepsOf(graph, name),
                               i |-> 1])
       /\ UNCHANGED <<cycleWarnings, backEdges, pc>>

\* visit(name) up to its first recursive call (index.ts 281-291, 294-301):
\* the two early returns, or a new activation record.  st is the caller's
\* stack at the time of the call.
visitEnter(name, st) ==
  IF name \in temp
  THEN /\ cycleWarnings' = Append(cycleWarnings, name)
       /\ backEdges' = Append(backEdges, <<st[Len(st)].name, name>>)
       /\ stack' = st
       /\ UNCHANGED <<temp, pc>>
  ELSE IF name \in visited
  THEN /\ stack' = st
       /\ UNCHANGED <<temp, cycleWarnings, backEdges, pc>>
  ELSE IF Len(st) >= MaxStack
  THEN /\ pc' = "thrown"      \* RangeError: Maximum call stack size exceeded
       /\ stack' = st
       /\ UNCHANGED <<temp, cycleWarnings, backEdges>>
  ELSE /\ temp' = temp \cup {name}
       /\ stack' = Append(st, [name |-> name,
                               localDeps |-> localDepsOf(graph, name),
                               i |-> 1])
       /\ UNCHANGED <<cycleWarnings, backEdges, pc>>

\* Variant: the dependency order is resolved whatever the flag says.
StartLinkAllAlwaysResolving ==
  /\ pc = "start"
  /\ IF localPackages = <<>>
     THEN /\ pc' = "done"
          /\ result' = <<FALSE>>
          /\ UNCHANGED <<graph, packageOrder>>
     ELSE /\ graph' = buildDependencyGraph(localPackages)
          /\ pc' = "visit"
          /\ UNCHANGED <<packageOrder, result>>
  /\ UNCHANGED <<inputVars, recVars, parseVars, watchVars, mainVars,
                 dfsVars, missingWarnings, idx, allSuccessful,
                 calls, failures>>

\* linkAllPackages, lines 156-166 and 182-185: the empty-set return, the
\* graph construction, or the plain declaration order.
StartLinkAll ==
  /\ pc = "start"
  /\ IF localPackages = <<>>
     THEN /\ pc' = "done"
          /\ result' = <<FALSE>>
          /\ UNCHANGED <<graph, packageOrder>>
     ELSE IF resolveDependencies
     THEN /\ graph' = buildDependencyGraph(localPackages)
          /\ pc' = "visit"
          /\ UNCHANGED <<packageOrder, result>>
     ELSE /\ packageOrder' = localPackages
          /\ pc' = "build"
          /\ UNCHANGED <<graph, result>>
  /\ UNCHANGED <<inputVars, recVars, parseVars, watchVars, mainVars,
                 dfsVars, missingWarnings, idx, allSuccessful,
                 calls, failures>>

\* for (const name of graph.keys()) if (!visited.has(name)) visit(name)
VisitRoot ==
  /\ pc = "visit"
  /\ stack = <<>>
  /\ rootIdx <= Len(graph)
  /\ rootIdx' = rootIdx + 1
  /\ IF graph[rootIdx].name \in visited
     THEN UNCHANGED <<temp, stack, cycleWarnings, backEdges, pc>>
     ELSE visitEnter(graph[rootIdx].name, stack)
  /\ UNCHANGED <<inputVars, recVars, parseVars, watchVars, mainVars,
                 graph, visited, order, missingWarnings,
                 packageOrder, pipeVars>>

\* for (const dep of localDeps) visit(dep)
VisitDep ==
  /\ pc = "visit"
  /\ stack # <<>>
  /\ Top.i <= Len(Top.localDeps)
  /\ visitEnter(Top.localDeps[Top.i],
                [stack EXCEPT ![Len(stack)].i = Top.i + 1])
  /\ UNCHANGED <<inputVars, recVars, parseVars, watchVars, mainVars,
                 graph, visited, order, rootIdx, missingWarnings,
                 packageOrder, pipeVars>>

\* Variant: visit() returns without temp.delete(name).
VisitExitKeepingTemp ==
  /\ pc = "visit"
  /\ stack # <<>>
  /\ Top.i > Len(Top.localDeps)
  /\ visited' = visited \cup {Top.name}
  /\ order' = Append(order, Top.name)
  /\ stack' = SubSeq(stack, 1, Len(stack) - 1)
  /\ UNCHANGED <<inputVars, recVars, parseVars, watchVars, mainVars,
                 pc, graph, rootIdx, cycleWarnings, backEdges, temp,
                 missingWarnings, packageOrder, pipeVars>>

\* temp.delete(name); visited.add(name); order.push(name)
VisitExit ==
  /\ pc = "visit"
  /\ stack # <<>>
  /\ Top.i > Len(Top.localDeps)
  /\ temp' = temp \ {Top.name}
  /\ visited' = visited \cup {Top.name}
  /\ order' = Append(order, Top.name)
  /\ stack' = SubSeq(stack, 1, Len(stack) - 1)
  /\ UNCHANGED <<inputVars, recVars, parseVars, watchVars, mainVars,
                 pc, graph, rootIdx, cycleWarnings, backEdges,
                 missingWarnings, packageOrder, pipeVars>>

\* return order.reverse()
topologicalResult(ord) == Reverse(ord)

ReturnOrder ==
  /\ pc = "visit"
  /\ stack = <<>>
  /\ rootIdx > Len(graph)
  /\ packageOrder' = topologicalResult(order)
  /\ pc' = "missing"
  /\ UNCHANGED <<inputVars, recVars, parseVars, watchVars, mainVars,
                 graph, dfsVars, missingWarnings, pipeVars>>

\* ------------------------------------------------------- linkAllPackages
missingPackagesOf(names, ord) == Filter(names, Range(names) \ Range(ord))

\* Variant: the missing packages are put in front of the resolved order.
AppendMissingInFront ==
  /\ pc = "missing"
  /\ LET missingPackages == missingPackagesOf(localPackages, packageOrder)
     IN IF Len(missingPackages) > 0
        THEN /\ missingWarnings' = Append(missingWarnings, missingPackages)
             /\ packageOrder' = missingPackages \o packageOrder
        ELSE UNCHANGED <<missingWarnings, packageOrder>>
  /\ pc' = "build"
  /\ UNCHANGED <<inputVars, recVars, parseVars, watchVars, mainVars,
                 graph, dfsVars, pipeVars>>

\* if (missingPackages.length > 0) { warn; packageOrder = [...packageOrder,
\* ...missingPackages] }
AppendMissing ==
  /\ pc = "missing"
  /\ LET missingPackages == missingPackagesOf(localPackages, packageOrder)
     IN IF Len(missingPackages) > 0
        THEN /\ missingWarnings' = Append(missingWarnings, missingPackages)
             /\ packageOrder' = packageOrder \o missingPackages
        ELSE UNCHANGED <<missingWarnings, packageOrder>>
  /\ pc' = "build"
  /\ UNCHANGED <<inputVars, recVars, parseVars, watchVars, mainVars,
                 graph, dfsVars, pipeVars>>

\* buildPackage: false without running anything when the manifest cannot be
\* read; otherwise the outcome of the build step (runBuild's result, or true
\* when there is nothing to run).
\* localPackages[name], the declaration linkAllPackages and the watcher
\* pass on; a run that starts from bare names declares no custom command
configOf(name) ==
  LET ds == IF ProjectRoot \in DOMAIN declared
            THEN declared[ProjectRoot] ELSE <<>>
      at == {i \in 1..Len(ds) : ds[i].name = name}
  IN IF at = {} THEN [buildCommand |-> Null]
     ELSE ds[CHOOSE i \in at : TRUE]

\* JavaScript truthiness of an optional string
truthy(x) == x # Null /\ x[1] # <<>>

\* runBuild's defaultCommand, `${pmPath} run build`: "run build"
DefaultBuildCommand == <<114, 117, 110, SP, 98, 117, 105, 108, 100>>

\* Variant: the package manager's build script is run whatever is configured.
buildCommandOfScriptOnly(customCommand) == DefaultBuildCommand

\* runBuild: const buildCommand = customCommand || defaultCommand
buildCommandOf(customCommand) ==
  IF truthy(customCommand) THEN customCommand[1] ELSE DefaultBuildCommand

\* the command a call of buildPackage runs, Null when it runs none: none
\* without a readable manifest, none when there is neither a custom command
\* nor a build script
commandRun(name) ==
  IF ~Readable(name) THEN Null
  ELSE IF ~truthy(configOf(name).buildCommand) /\ ~truthy(fs[name].buildScript)
  THEN Null
  ELSE <<buildCommandOf(configOf(name).buildCommand)>>

\* Variant: the build's outcome is returned whatever the manifest is.
buildPackageIgnoringManifest(name, stepOk) == stepOk

buildPackage(name, stepOk) ==
  IF ~Readable(name) THEN FALSE
  ELSE IF commandRun(name) = Null THEN TRUE
  ELSE stepOk

\* A command may fail only while the failure budget lasts.
Outcomes == IF failures < MaxFailures THEN BOOLEAN ELSE {TRUE}

Call(op, name, ok) == [op |-> op, name |-> name, ok |-> ok]

\* a call of buildPackage: its result, and the command it ran with that
\* command's outcome, Null when it ran none
BuildCall(name, stepOk) ==
  [op |-> "build", name |-> name, ok |-> buildPackage(name, stepOk),
   run |-> IF commandRun(name) = Null THEN Null
           ELSE <<[cmd |-> commandRun(name)[1], ok |-> stepOk]>>]

afterBuild(buildSuccess) == IF buildSuccess THEN "glink" ELSE "build"

\* Variant: a failed build is recorded but the package is linked anyway.
BuildThenAlwaysLink ==
  /\ pc = "build"
  /\ idx <= Len(packageOrder)
  /\ LET packageName == packageOrder[idx] IN
     \E stepOk \in (IF commandRun(packageName) # Null THEN Outcomes
                    ELSE {TRUE}) :
       LET buildSuccess == buildPackage(packageName, stepOk) IN
       /\ calls' = Append(calls, BuildCall(packageName, stepOk))
       /\ failures' = IF commandRun(packageName) # Null /\ ~stepOk
                      THEN failures + 1 ELSE failures
       /\ pc' = "glink"
       /\ allSuccessful' = IF buildSuccess THEN allSuccessful ELSE FALSE
       /\ idx' = idx
  /\ UNCHANGED <<inputVars, recVars, parseVars, watchVars, mainVars,
                 graph, dfsVars, missingWarnings, packageOrder,
                 result>>

\* const buildSuccess = buildPackage(...); if (!buildSuccess) {
\* allSuccessful = false; continue; }
Build ==
  /\ pc = "build"
  /\ idx <= Len(packageOrder)
  /\ LET packageName == packageOrder[idx] IN
     \E stepOk \in (IF commandRun(packageName) # Null THEN Outcomes
                    ELSE {TRUE}) :
       LET buildSuccess == buildPackage(packageName, stepOk) IN
       /\ calls' = Append(calls, BuildCall(packageName, stepOk))
       /\ failures' = IF commandRun(packageName) # Null /\ ~stepOk
                      THEN failures + 1 ELSE failures
       /\ pc' = afterBuild(buildSuccess)
       /\ IF buildSuccess
          THEN UNCHANGED <<allSuccessful, idx>>
          ELSE /\ allSuccessful' = FALSE
               /\ idx' = idx + 1
  /\ UNCHANGED <<inputVars, recVars, parseVars, watchVars, mainVars,
                 graph, dfsVars, missingWarnings, packageOrder,
                 result>>

\* linkPackage, first half: pmCommands.createGlobalLink(absPath, packageName)
afterGlobalLink(globalLinkSuccess) ==
  IF globalLinkSuccess THEN "plink" ELSE "build"

\* Variant: the project link is made also after a failed global link.
CreateGlobalLinkThenAlwaysLink ==
  /\ pc = "glink"
  /\ \E ok \in Outcomes :
       /\ calls' = Append(calls, Call("globalLink", packageOrder[idx], ok))
       /\ failures' = IF ok THEN failures ELSE failures + 1
       /\ pc' = "plink"
       /\ allSuccessful' = IF ok THEN allSuccessful ELSE FALSE
       /\ idx' = idx
  /\ UNCHANGED <<inputVars, recVars, parseVars, watchVars, mainVars,
                 graph, dfsVars, missingWarnings, packageOrder,
                 result>>

CreateGlobalLink ==
  /\ pc = "glink"
  /\ \E ok \in Outcomes :
       /\ calls' = Append(calls, Call("globalLink", packageOrder[idx], ok))
       /\ failures' = IF ok THEN failures ELSE failures + 1
       /\ pc' = afterGlobalLink(ok)
       /\ IF ok
          THEN UNCHANGED <<allSuccessful, idx>>
          ELSE /\ allSuccessful' = FALSE
               /\ idx' = idx + 1
  /\ UNCHANGED <<inputVars, recVars, parseVars, watchVars, mainVars,
                 graph, dfsVars, missingWarnings, packageOrder,
                 result>>

\* Variant: the last link's outcome overwrites the aggregate.
LinkToProjectOverwriting ==
  /\ pc = "plink"
  /\ \E ok \in Outcomes :
       /\ calls' = Append(calls, Call("projectLink", packageOrder[idx], ok))
       /\ failures' = IF ok THEN failures ELSE failures + 1
       /\ allSuccessful' = ok
  /\ idx' = idx + 1
  /\ pc' = "build"
  /\ UNCHANGED <<inputVars, recVars, parseVars, watchVars, mainVars,
                 graph, dfsVars, missingWarnings, packageOrder,
                 result>>

\* Variant: the project link is issued for the first package of the order.
LinkToProjectStale ==
  /\ pc = "plink"
  /\ \E ok \in Outcomes :
       /\ calls' = Append(calls, Call("projectLink", packageOrder[1], ok))
       /\ failures' = IF ok THEN failures ELSE failures + 1
       /\ allSuccessful' = IF ok THEN allSuccessful ELSE FALSE
  /\ idx' = idx + 1
  /\ pc' = "build"
  /\ UNCHANGED <<inputVars, recVars, parseVars, watchVars, mainVars,
                 graph, dfsVars, missingWarnings, packageOrder,
                 result>>

\* linkPackage, second half: return mainPmCommands.linkToProject(packageName)
LinkToProject ==
  /\ pc = "plink"
  /\ \E ok \in Outcomes :
       /\ calls' = Append(calls, Call("projectLink", packageOrder[idx], ok))
       /\ failures' = IF ok THEN failures ELSE failures + 1
       /\ allSuccessful' = IF ok THEN allSuccessful ELSE FALSE
  /\ idx' = idx + 1
  /\ pc' = "build"
  /\ UNCHANGED <<inputVars, recVars, parseVars, watchVars, mainVars,
                 graph, dfsVars, missingWarnings, packageOrder,
                 result>>

\* return allSuccessful
Finish ==
  /\ pc = "build"
  /\ idx > Len(packageOrder)
  /\ result' = <<allSuccessful>>
  /\ pc' = "done"
  /\ UNCHANGED <<inputVars, recVars, parseVars, watchVars, mainVars,
                 graph, dfsVars, missingWarnings, packageOrder,
                 idx, allSuccessful, calls, failures>>

\* -------------------------------------------------------- specifications
Next ==
  \/ StartLinkAll
  \/ VisitRoot
  \/ VisitDep
  \/ VisitExit
  \/ ReturnOrder
  \/ AppendMissing
  \/ Build
  \/ CreateGlobalLink
  \/ LinkToProject
  \/ Finish

Spec == Init /\ [][Next]_vars

\* ---- linkAllPackages over packages that differ in what buildPackage finds
\* what buildPackage can find at a package path: no directory, no
\* package.json, a package.json that does not parse, or a manifest
ManifestKinds == {"ok", NoPath} \cup Unreadable

\* a custom build command of a declaration: "make"
CustomCommand == <<109, 97, 107, 101>>

\* the declaration of package p with the optional build command c
Declaration(p, c) ==
  [name |-> p, path |-> DirPath(p), buildCommand |-> c, watchPatterns |-> Null]

\* linkAllPackages is called with up to MaxBuildPkgs declarations, each with
\* or without a custom build command, on manifests of every kind, with or
\* without a build script; the first package may depend on the second
InitBuild ==
  /\ MainIdle
  /\ ParseIdle
  /\ WatchIdle
  /\ LinkIdle
  /\ \E n \in 0..MaxBuildPkgs :
       /\ localPackages = [i \in 1..n |-> i]
       /\ \E st \in [1..n -> ManifestKinds],
             sc \in [1..n -> {Null, <<BuildScript>>}],
             bc \in [1..n -> {Null, <<CustomCommand>>}],
             es \in {<<>>, <<<<1, 1, 2>>>>} :
            /\ \A p \in 1..n : st[p] # "ok" => sc[p] = Null
            /\ es # <<>> => (n >= 2 /\ st[1] = "ok")
            /\ fs = [p \in 1..n |->
                       [PackageJson(es, p, st[p]) EXCEPT !.buildScript = sc[p]]]
            /\ declared =
                 (ProjectRoot :> [i \in 1..n |-> Declaration(i, bc[i])])
  /\ resolveDependencies \in BOOLEAN
  /\ configs = <<>> /\ failing = {}
  /\ cwd = ProjectRoot /\ processed = {} /\ rstack = <<>>
  /\ rootI = 1 /\ expansions = <<>> /\ steps = <<>>
  /\ pc = "start"

SpecBuild == InitBuild /\ [][Next]_vars

\* Order resolution alone: linkAllPackages with resolveDependencies = true,
\* up to the start of its build/link loop.
InitOrder ==
  InitWith(MaxEdges) /\ resolveDependencies /\ localPackages # <<>>

NextOrder ==
  \/ StartLinkAll
  \/ VisitRoot
  \/ VisitDep
  \/ VisitExit
  \/ ReturnOrder
  \/ AppendMissing

SpecOrder == InitOrder /\ [][NextOrder]_vars

\* The graphs handed to getTopologicalOrder, each once: a declaration set
\* with an unreadable manifest yields the graph of a smaller declaration set
\* whose manifests name a package outside the local set.
InitGraph == InitOrder /\ \A p \in Range(localPackages) : Readable(p)

\* The resolver is synchronous code: once called it keeps running.
FairOrder == InitGraph /\ [][NextOrder]_vars /\ WF_vars(NextOrder)

\* ------------------------------------------------------- config text
WatchOpen == <<119, 97, 116, 99, 104, 58, 91>>    \* "watch:["
WatchColon == <<119, 97, 116, 99, 104, 58>>       \* "watch:"

\* the characters \s matches
isSpace(c) == c = SP

Min(S) == CHOOSE x \in S : \A y \in S : x <= y

\* String.prototype.split with a one-character separator
RECURSIVE split(_, _)
split(s, sep) ==
  IF \A i \in 1..Len(s) : s[i] # sep THEN <<s>>
  ELSE LET k == Min({i \in 1..Len(s) : s[i] = sep})
       IN <<SubSeq(s, 1, k - 1)>> \o split(SubSeq(s, k + 1, Len(s)), sep)

RECURSIVE trimStart(_)
trimStart(s) ==
  IF s # <<>> /\ isSpace(Head(s)) THEN trimStart(Tail(s)) ELSE s

\* String.prototype.trim
trim(s) == Reverse(trimStart(Reverse(trimStart(s))))

\* Array.prototype.map(p => p.trim())
trimAll(ss) == [i \in 1..Len(ss) |-> trim(ss[i])]

\* String.prototype.startsWith
startsWith(s, prefix) ==
  Len(prefix) <= Len(s) /\ SubSeq(s, 1, Len(prefix)) = prefix

\* the literal lit stands in s at position j
litAt(s, j, lit) ==
  j + Len(lit) - 1 <= Len(s) /\ SubSeq(s, j, j + Len(lit) - 1) = lit

\* String.prototype.replace(sub, by) with a string pattern: the first
\* occurrence only
replaceFirst(s, sub, by) ==
  LET occ == {k \in 1..Len(s) : litAt(s, k, sub)}
  IN IF occ = {} THEN s
     ELSE SubSeq(s, 1, Min(occ) - 1) \o by
            \o SubSeq(s, Min(occ) + Len(sub), Len(s))

\* where the run of \s characters that starts at i ends: the first position
\* from i on that holds no space, Len(s) + 1 if there is none
runEnd(s, i) ==
  Min({j \in i..(Len(s) + 1) : j = Len(s) + 1 \/ ~isSpace(s[j])})

\* the positions of a "]" that (?:\s+|$) can follow, after an opening at j
closesAfter(s, j) ==
  {m \in (j + 1)..Len(s) :
     s[m] = RBRACKET /\ (m = Len(s) \/ isSpace(s[m + 1]))}

\* packageInfo.match(/^(.*?)\s+\[(.*?)\](?:\s+|$)/): the shortest prefix
\* followed by spaces and a "[", and the shortest bracket content.
buildCommandMatch(s) ==
  LET starts == {i \in 1..Len(s) :
                   /\ isSpace(s[i])
                   /\ runEnd(s, i) <= Len(s)
                   /\ s[runEnd(s, i)] = LBRACKET
                   /\ closesAfter(s, runEnd(s, i)) # {}}
  IN IF starts = {} THEN Null
     ELSE LET i == Min(starts)
              j == runEnd(s, i)
              m == Min(closesAfter(s, j))
          IN <<[g1 |-> SubSeq(s, 1, i - 1), g2 |-> SubSeq(s, j + 1, m - 1)]>>

\* packageInfo.match(/\s+watch:\[(.*?)\](?:\s+|$)/): the leftmost run of
\* spaces followed by "watch:[", the shortest content, and the spaces after
\* the "]".  g0 is the whole match.
watchPatternsMatch(s) ==
  LET opening(i) == runEnd(s, i) + Len(WatchOpen) - 1
      starts == {i \in 1..Len(s) :
                   /\ isSpace(s[i])
                   /\ litAt(s, runEnd(s, i), WatchOpen)
                   /\ closesAfter(s, opening(i)) # {}}
  IN IF starts = {} THEN Null
     ELSE LET i == Min(starts)
              b == opening(i)
              m == Min(closesAfter(s, b))
              e == IF m = Len(s) THEN m ELSE runEnd(s, m + 1) - 1
          IN <<[g0 |-> SubSeq(s, i, e), g1 |-> SubSeq(s, b + 1, m - 1)]>>

\* x || undefined for a string x
orUndefined(x) == IF x = <<>> THEN Null ELSE <<x>>

\* parsePackageLine (config.ts 13-49): Null, or <<[name, path, buildCommand,
\* watchPatterns]>> with an undefined field held as Null.
parsePackageLine(ln) ==
  LET parts == trimAll(split(ln, EQ))
  IN IF Len(parts) # 2 \/ parts[1] = <<>> \/ parts[2] = <<>> THEN Null
     ELSE LET packageInfo == parts[2]
              bm == buildCommandMatch(packageInfo)
              wm == watchPatternsMatch(packageInfo)
              path0 == IF bm = Null THEN packageInfo ELSE trim(bm[1].g1)
          IN <<[name |-> parts[1],
                path |-> IF wm = Null THEN path0
                         ELSE trim(replaceFirst(path0, wm[1].g0, <<>>)),
                buildCommand |->
                  IF bm = Null THEN Null ELSE orUndefined(trim(bm[1].g2)),
                watchPatterns |->
                  IF wm = Null THEN Null
                  ELSE <<trimAll(split(wm[1].g1, COMMA))>>]>>

\* ---- the lines parsePackageLine is applied to
\* An annotation after the path: a bracketed build command, bracketed watch
\* patterns as the README writes them, watch patterns with the bracket after
\* the colon, or both brackets as the help text writes them.
AnnotationKinds == {"build", "watch", "bareWatch", "nestedWatch"}

Commands == {<<3>>, <<3, SP, 4>>}

PatternLists == {<<<<5>>>>, <<<<5>>, <<6>>>>}

Annotations ==
  {[kind |-> "build", val |-> c] : c \in Commands}
    \cup {[kind |-> k, val |-> ps] :
            k \in AnnotationKinds \ {"build"}, ps \in PatternLists}

\* Array.prototype.join(",")
RECURSIVE joinComma(_)
joinComma(ss) ==
  IF ss = <<>> THEN <<>>
  ELSE IF Len(ss) = 1 THEN ss[1]
  ELSE ss[1] \o <<COMMA>> \o joinComma(Tail(ss))

AnnotationText(a) ==
  IF a.kind = "build" THEN <<LBRACKET>> \o a.val \o <<RBRACKET>>
  ELSE IF a.kind = "watch"
  THEN <<LBRACKET>> \o WatchColon \o joinComma(a.val) \o <<RBRACKET>>
  ELSE IF a.kind = "bareWatch"
  THEN WatchOpen \o joinComma(a.val) \o <<RBRACKET>>
  ELSE <<LBRACKET>> \o WatchOpen \o joinComma(a.val)
         \o <<RBRACKET, RBRACKET>>

RECURSIVE AnnotationsText(_)
AnnotationsText(as) ==
  IF as = <<>> THEN <<>>
  ELSE <<SP>> \o AnnotationText(Head(as)) \o AnnotationsText(Tail(as))

AnnotationSeqs == UNION {[1..k -> Annotations] : k \in 0..MaxAnnotations}

\* name, "=" with or without spaces around it, path, annotations
LineForms ==
  [name : {<<1>>}, spaced : BOOLEAN, path : {<<SLASH, 1>>, <<DOT, 1>>},
   annotations : AnnotationSeqs]

LineText(f) ==
  f.name \o (IF f.spaced THEN <<SP, EQ, SP>> ELSE <<EQ>>) \o f.path
    \o AnnotationsText(f.annotations)

InitParse ==
  /\ RecIdle
  /\ MainIdle
  /\ LinkIdle
  /\ WatchIdle
  /\ localPackages = <<>> /\ fs = <<>> /\ resolveDependencies = FALSE
  /\ pc = "parse"
  /\ \E f \in LineForms : line = LineText(f)
  /\ parsed = <<>>

\* one call of parsePackageLine
ParseLine ==
  /\ pc = "parse"
  /\ parsed' = <<parsePackageLine(line)>>
  /\ pc' = "parsed"
  /\ UNCHANGED <<inputVars, linkVars, recVars, watchVars, mainVars, line>>

NextParse == ParseLine

SpecParse == InitParse /\ [][NextParse]_vars

\* ----------------------------------------------------------- readConfig
\* acc[packageName] = packageConfig: a new key goes last, a known key keeps
\* its place
setKey(acc, entry) ==
  IF \E i \in 1..Len(acc) : acc[i].name = entry.name
  THEN [i \in 1..Len(acc) |->
          IF acc[i].name = entry.name THEN entry ELSE acc[i]]
  ELSE Append(acc, entry)

RECURSIVE reduceLines(_, _)
reduceLines(acc, lines) ==
  IF lines = <<>> THEN acc
  ELSE LET entry == parsePackageLine(Head(lines))
       IN reduceLines(IF entry = Null THEN acc ELSE setKey(acc, entry[1]),
                      Tail(lines))

\* .filter((line) => line.trim() && !line.startsWith("#"))
keepLine(ln) == trim(ln) # <<>> /\ ~startsWith(ln, <<HASH>>)

\* readConfig (config.ts 54-96) on a file [status, text]: the declarations
\* in key order; none when the file is missing or reading it throws.
readConfig(file) ==
  IF file.status # "ok" THEN <<>>
  ELSE reduceLines(<<>>, SelectSeq(split(file.text, NL), keepLine))

\* ----------------------------------------------- recursive expansion
Dirs == 0..MaxDirs

\* A declared path is absolute (it names a directory) or relative (it leads
\* a number of directories onward from the directory it is resolved against).
AbsPath(d) == DirPath(d)
RelPath(r) == <<DOT, r>>

\* the paths written in the config files: any package directory by its
\* absolute path, or the next directory by a relative one
Paths == {AbsPath(d) : d \in 1..MaxDirs} \cup {RelPath(1)}

\* path.isAbsolute
isAbsolute(p) == p # <<>> /\ p[1] = SLASH

\* path.isAbsolute(p) ? p : path.resolve(base, p), base being the path of a
\* directory; any other text names a path below base where nothing is
resolve(base, p) ==
  IF isAbsolute(p) THEN p
  ELSE IF Len(p) = 2 /\ p[1] = DOT /\ p[2] \in Dirs
  THEN DirPath((base[2] + p[2]) % (MaxDirs + 1))
  ELSE base \o <<SLASH>> \o p

\* The lines <<dir, name, path>> of all config files together, at most m,
\* grouped by directory.  Name 0 stands for a comment line; a declaration
\* has a name from 1 on.  No name twice in one file, names numbered in the
\* order of their first appearance.
CommentLine == <<0, <<>>>>

RECURSIVE DeclSeqs(_)
DeclSeqs(m) ==
  IF m = 0 THEN {<<>>}
  ELSE LET prev == DeclSeqs(m - 1)
           longest == {s \in prev : Len(s) = m - 1}
           ext == {x \in longest \X
                          (Dirs \X (((1..m) \X Paths) \cup {CommentLine})) :
                     /\ \A i \in 1..Len(x[1]) :
                          /\ x[1][i][1] <= x[2][1]
                          /\ x[1][i][1] = x[2][1] =>
                               x[1][i][2][1] # x[2][2][1]
                     /\ \A n \in 1..(x[2][2][1] - 1) :
                          \E i \in 1..Len(x[1]) : x[1][i][2][1] = n}
       IN prev \cup {Append(x[1], x[2]) : x \in ext}

\* the line `name = path` of a declaration <<name, path>>, or a comment
DeclText(decl) ==
  IF decl = CommentLine THEN <<HASH>>
  ELSE <<decl[1], SP, EQ, SP>> \o decl[2]

\* the text of directory d's config file: one line per declaration
RECURSIVE DeclsText(_, _)
DeclsText(ds, d) ==
  IF ds = <<>> THEN <<>>
  ELSE IF Head(ds)[1] # d THEN DeclsText(Tail(ds), d)
  ELSE LET rest == DeclsText(Tail(ds), d)
       IN DeclText(Head(ds)[2])
            \o (IF rest = <<>> THEN <<>> ELSE <<NL>> \o rest)

\* The .localpackages file of directory d: its lines, or no file at all.
ConfigFile(ds, d) ==
  [status |-> IF DeclsText(ds, d) = <<>> THEN "missing" ELSE "ok",
   text |-> DeclsText(ds, d)]

\* the directories the declarations lead to; no other directory's config
\* file is ever looked for
DeclTargets(ds) ==
  {resolve(DirPath(ds[i][1]), ds[i][2][2])[2] :
     i \in {k \in 1..Len(ds) : ds[k][2] # CommentLine}}

\* fs.existsSync(path.join(dir, CONFIG_FILE))
existsConfig(dir) ==
  dir \in DOMAIN configs /\ configs[dir].status # "missing"

\* readConfig() with process.cwd() = dir.  The files do not change during a
\* run, so what readConfig returns in each directory is worked out once.
readConfigIn(dir) ==
  IF dir \in DOMAIN declared THEN declared[dir] ELSE <<>>

\* the declarations main() read and handed to linkRecursiveDependencies
rootPackages == readConfigIn(ProjectRoot)

\* the commands of the expansion
Ops == {"build", "globalLink", "projectLink"}

\* The environments of a run: the kinds of command that fail in it (a build
\* script that exits non-zero, a link the package manager refuses).
FailingSets == {S \in SUBSET Ops : Cardinality(S) <= MaxFailures}

\* a run of linkRecursiveDependencies over the root declarations
InitRecursive ==
  /\ LinkIdle
  /\ MainIdle
  /\ ParseIdle
  /\ WatchIdle
  /\ \E ds \in DeclSeqs(MaxDecls) :
       /\ \E i \in 1..Len(ds) : ds[i][1] = 0 /\ ds[i][2] # CommentLine
       /\ \A i \in 1..Len(ds) : ds[i][1] \in {0} \cup DeclTargets(ds)
       /\ configs = [p \in {DirPath(d) : d \in Dirs} |->
                       ConfigFile(ds, p[2])]
  /\ declared = [p \in DOMAIN configs |-> readConfig(configs[p])]
  /\ localPackages = [i \in 1..Len(rootPackages) |-> rootPackages[i].name]
  /\ fs = <<>>
  /\ resolveDependencies = FALSE
  /\ pc = "recursive"
  /\ failing \in FailingSets
  /\ cwd = ProjectRoot /\ processed = {} /\ rstack = <<>>
  /\ rootI = 1 /\ expansions = <<>> /\ steps = <<>>

\* process.chdir(absPath) before readConfig() (linker.ts 277-285): the
\* directory the nested config is read in
configReadAt(absPath, dir) == absPath

\* process.chdir(currentDir) after readConfig() (linker.ts 288): the working
\* directory the call goes on with.  Variant: the call stays in absPath.
cwdStayingAfterRead(currentDir, absPath) == absPath

cwdAfterRead(currentDir, absPath) == currentDir

\* The call site of an activation: the activation it was called from (0 for
\* linkRecursiveDependencies), the number of steps made before the call, the
\* root declaration being expanded, and the depth argument.
Site(from, via, root, depth) ==
  [from |-> from, via |-> via, root |-> root, depth |-> depth]

\* the expansion without its processed-set guard
processEnterNoGuard(packageName, path, dir, st, site) ==
  LET packageKey == packageName \o <<COLON>> \o path
      absPath == resolve(dir, path)
      currentDir == dir
      packageLocalDeps == readConfigIn(configReadAt(absPath, dir))
  IN IF Len(st) >= MaxStack
     THEN /\ pc' = "thrown"
          /\ rstack' = st
          /\ cwd' = dir
          /\ UNCHANGED <<processed, expansions>>
     ELSE /\ processed' = processed \cup {packageKey}
          /\ pc' = pc
          /\ IF ~existsConfig(absPath)
             THEN /\ rstack' = st
                  /\ cwd' = dir
                  /\ UNCHANGED expansions
             ELSE /\ expansions' =
                       Append(expansions,
                              [name |-> packageName, path |-> absPath,
                               at |-> configReadAt(absPath, dir),
                               from |-> site.from, via |-> site.via,
                               root |-> site.root, depth |-> site.depth])
                  /\ cwd' = cwdAfterRead(currentDir, absPath)
                  /\ rstack' =
                       IF packageLocalDeps = <<>> THEN st
                       ELSE Append(st, [name |-> packageName,
                                        absPath |-> absPath,
                                        currentDir |-> currentDir,
                                        deps |-> packageLocalDeps,
                                        i |-> 1,
                                        id |-> Len(expansions) + 1,
                                        root |-> site.root,
                                        depth |-> site.depth])

\* processPackageRecursively called with (packageName, config.path) while
\* process.cwd() = dir, up to the start of its loop (linker.ts 259-298): one
\* of the three early returns, or a new activation.  st is the caller's stack.
processEnter(packageName, path, dir, st, site) ==
  LET packageKey == packageName \o <<COLON>> \o path
      absPath == resolve(dir, path)
      currentDir == dir
      packageLocalDeps == readConfigIn(configReadAt(absPath, dir))
  IN IF packageKey \in processed
     THEN /\ rstack' = st
          /\ cwd' = dir
          /\ UNCHANGED <<processed, expansions, pc>>
     ELSE IF Len(st) >= MaxStack
     THEN /\ pc' = "thrown"
          /\ rstack' = st
          /\ cwd' = dir
          /\ UNCHANGED <<processed, expansions>>
     ELSE /\ processed' = processed \cup {packageKey}
          /\ pc' = pc
          /\ IF ~existsConfig(absPath)
             THEN /\ rstack' = st
                  /\ cwd' = dir
                  /\ UNCHANGED expansions
             ELSE /\ expansions' =
                       Append(expansions,
                              [name |-> packageName, path |-> absPath,
                               at |-> configReadAt(absPath, dir),
                               from |-> site.from, via |-> site.via,
                               root |-> site.root, depth |-> site.depth])
                  /\ cwd' = cwdAfterRead(currentDir, absPath)
                  /\ rstack' =
                       IF packageLocalDeps = <<>> THEN st
                       ELSE Append(st, [name |-> packageName,
                                        absPath |-> absPath,
                                        currentDir |-> currentDir,
                                        deps |-> packageLocalDeps,
                                        i |-> 1,
                                        id |-> Len(expansions) + 1,
                                        root |-> site.root,
                                        depth |-> site.depth])

\* linkRecursiveDependencies' loop (linker.ts 232-241): the next root
\* declaration, with the path as it is written in the config
ProcessRoot ==
  /\ pc = "recursive"
  /\ rstack = <<>>
  /\ rootI <= Len(rootPackages)
  /\ processEnter(rootPackages[rootI].name, rootPackages[rootI].path, cwd,
                  <<>>, Site(0, Len(steps), rootI, 0))
  /\ rootI' = rootI + 1
  /\ UNCHANGED <<inputVars, linkVars, parseVars, watchVars, mainVars,
                 configs, declared, failing, steps>>

\* One step of the expansion: the command op for package name on directory
\* path, made with process.cwd() = at by the activation top, and whether it
\* succeeded.
Step(op, name, path, at, top) ==
  [op |-> op, name |-> name, path |-> path, at |-> at,
   ok |-> op \notin failing, in |-> top.id, depth |-> top.depth + 1]

\* Variant: a relative nested path is resolved against the working directory.
relativePathFromCwd(top, depConfig) == resolve(top.currentDir, depConfig.path)

\* const relativePath = path.isAbsolute(depConfig.path) ? depConfig.path :
\* path.resolve(absPath, depConfig.path)  (linker.ts 303-305)
relativePathOf(top, depConfig) == resolve(top.absPath, depConfig.path)

\* Variant: the dependency is linked before it is built.
depStepsLinkFirst(top, depName, relativePath, dir) ==
  << Step("globalLink", depName, relativePath, dir, top),
     Step("build", depName, relativePath, dir, top),
     Step("projectLink", depName, relativePath, top.absPath, top) >>

\* Variant: linkToProject runs without the chdir into the package.
depStepsLinkingInPlace(top, depName, relativePath, dir) ==
  << Step("build", depName, relativePath, dir, top),
     Step("globalLink", depName, relativePath, dir, top),
     Step("projectLink", depName, relativePath, dir, top) >>

\* buildPackage, createGlobalLink, then linkToProject between chdir(absPath)
\* and chdir(currentDir) (linker.ts 316-329); dir is process.cwd() at the
\* start of the iteration
depSteps(top, depName, relativePath, dir) ==
  << Step("build", depName, relativePath, dir, top),
     Step("globalLink", depName, relativePath, dir, top),
     Step("projectLink", depName, relativePath, top.absPath, top) >>

\* Variant: the loop is left when one of the three commands failed.
afterDepStoppingOnFailure(top, made) ==
  IF \E k \in 1..Len(made) : ~made[k].ok THEN Len(top.deps) + 1
  ELSE top.i + 1

\* The results of the three commands are dropped (linker.ts 316, 324, 328):
\* the for-loop moves on to the next dependency.
afterDep(top, made) == top.i + 1

\* One iteration of processPackageRecursively's loop (linker.ts 301-340):
\* build, global link, link into the package, recursive call.
ProcessDep ==
  /\ pc = "recursive"
  /\ rstack # <<>>
  /\ LET top == rstack[Len(rstack)]
         rest == SubSeq(rstack, 1, Len(rstack) - 1)
     IN /\ top.i <= Len(top.deps)
        /\ LET depName == top.deps[top.i].name
               relativePath == relativePathOf(top, top.deps[top.i])
               made == depSteps(top, depName, relativePath, cwd)
               next == afterDep(top, made)
           IN /\ steps' = steps \o made
              /\ IF next = top.i + 1
                 THEN processEnter(depName, relativePath, top.currentDir,
                                   Append(rest, [top EXCEPT !.i = next]),
                                   Site(top.id, Len(steps) + Len(made),
                                        top.root, top.depth + 1))
                 ELSE /\ rstack' = Append(rest, [top EXCEPT !.i = next])
                      /\ cwd' = top.currentDir
                      /\ UNCHANGED <<processed, expansions, pc>>
  /\ UNCHANGED <<inputVars, linkVars, parseVars, watchVars, mainVars,
                 configs, declared, failing, rootI>>

\* processPackageRecursively returns after its loop (linker.ts 341-342)
ProcessReturn ==
  /\ pc = "recursive"
  /\ rstack # <<>>
  /\ rstack[Len(rstack)].i > Len(rstack[Len(rstack)].deps)
  /\ rstack' = SubSeq(rstack, 1, Len(rstack) - 1)
  /\ UNCHANGED <<inputVars, linkVars, parseVars, watchVars, mainVars,
                 pc, configs, declared, failing, cwd,
                 processed, rootI,
                 expansions, steps>>

\* linkRecursiveDependencies returns: its promise resolves (linker.ts 243)
FinishRecursive ==
  /\ pc = "recursive"
  /\ rstack = <<>>
  /\ rootI > Len(rootPackages)
  /\ pc' = "resolved"
  /\ UNCHANGED <<inputVars, linkVars, parseVars, watchVars, mainVars, recVars>>

NextRecursive ==
  \/ ProcessRoot
  \/ ProcessDep
  \/ ProcessReturn
  \/ FinishRecursive

SpecRecursive == InitRecursive /\ [][NextRecursive]_vars

\* The expansion is one chain of awaits with nothing else scheduled: once
\* called it keeps running.  It never reads a command's result, so its
\* termination is checked with the link commands succeeding.
InitFairRecursive == InitRecursive /\ failing \subseteq {"build"}

FairRecursive ==
  InitFairRecursive /\ [][NextRecursive]_vars /\ WF_vars(NextRecursive)

\* ------------------------------------------------------------ watch mode
DebounceMs == 500

Src == <<115, 114, 99>>                   \* "src"
GlobAll == <<STAR, STAR, SLASH, STAR>>    \* "**/*"

\* path.join
join(a, b) == a \o <<SLASH>> \o b

\* getWatchPatterns (watcher.ts 21-36); patterns is Null when the
\* declaration has none
getWatchPatterns(packagePath, patterns) ==
  IF patterns # Null /\ Len(patterns[1]) > 0
  THEN [i \in 1..Len(patterns[1]) |->
          IF isAbsolute(patterns[1][i]) THEN patterns[1][i]
          ELSE join(packagePath, patterns[1][i])]
  ELSE IF join(packagePath, Src) \in srcDirs
  THEN <<join(join(packagePath, Src), GlobAll)>>
  ELSE <<join(packagePath, GlobAll)>>

\* the declarations handed to watchPackages, with their configs
watchedPackages == readConfigIn(ProjectRoot)

\* watchPaths as watchPackages builds it (watcher.ts 51-61)
watchPathsOf(decls) ==
  [i \in 1..Len(decls) |->
     [name |-> decls[i].name,
      path |-> getWatchPatterns(resolve(cwd, decls[i].path),
                                decls[i].watchPatterns)]]

\* pattern.split("*")[0]
dirPart(pattern) == split(pattern, STAR)[1]

\* Variant: the last matching package is found instead of the first.
matchingLast(changedPath) ==
  LET M == {i \in 1..Len(watchPaths) :
              \E k \in 1..Len(watchPaths[i].path) :
                startsWith(changedPath, dirPart(watchPaths[i].path[k]))}
  IN {i \in M : \A j \in M : j <= i}

\* watchPaths.find(...): the positions of the packages one of whose
\* patterns has a directory part the changed path starts with
matching(changedPath) ==
  {i \in 1..Len(watchPaths) :
     \E k \in 1..Len(watchPaths[i].path) :
       startsWith(changedPath, dirPart(watchPaths[i].path[k]))}

\* Variant: a clearTimeout that cancels nothing.
clearTimeoutCancellingNothing(name) == timers

\* Variant: one timer for all packages, cleared by any package's change.
clearTimeoutOfAll(name) == <<>>

\* clearTimeout(debounce[name]): the armed timers without that one
clearTimeout(name) ==
  IF name \in DOMAIN debounce
  THEN SelectSeq(timers, LAMBDA t : t.id # debounce[name])
  ELSE timers

\* the package directories, one inside another, and the watch patterns a
\* declaration may carry
WatchedDirs == {DirPath(1), join(DirPath(1), <<2>>)}

CustomPatterns == {Null, <<<<<<8, SLASH, STAR>>>>>>}

\* the files whose change is reported
ChangedPaths ==
  {join(DirPath(1), <<9>>), join(join(DirPath(1), Src), <<9>>),
   join(join(DirPath(1), <<8>>), <<9>>), join(join(DirPath(1), <<2>>), <<9>>)}

\* one or two declared packages in different directories
WatchDecls ==
  {<<[name |-> <<1>>, path |-> p, buildCommand |-> Null, watchPatterns |-> w]>> :
     p \in WatchedDirs, w \in CustomPatterns}
  \cup
  {<<[name |-> <<1>>, path |-> p[1], buildCommand |-> Null,
      watchPatterns |-> w[1]],
     [name |-> <<2>>, path |-> p[2], buildCommand |-> Null,
      watchPatterns |-> w[2]]>> :
     p \in {q \in WatchedDirs \X WatchedDirs : q[1] # q[2]},
     w \in CustomPatterns \X CustomPatterns}

\* watchPackages is about to be called with a non-empty declaration set
InitWatch ==
  /\ LinkIdle
  /\ MainIdle
  /\ ParseIdle
  /\ \E decls \in WatchDecls :
       /\ declared = (ProjectRoot :> decls)
       /\ localPackages = [i \in 1..Len(decls) |-> decls[i].name]
  /\ configs = <<>>
  /\ \E unreadable \in {{}, {localPackages[1]}} :
       fs = [p \in Range(localPackages) |->
               PackageJson(<<>>, p, IF p \in unreadable THEN "missing" ELSE "ok")]
  /\ resolveDependencies = FALSE
  /\ failing = {}
  /\ cwd = ProjectRoot /\ processed = {} /\ rstack = <<>>
  /\ rootI = 1 /\ expansions = <<>> /\ steps = <<>>
  /\ srcDirs \in {{}, {join(DirPath(1), Src)}}
  /\ watchPaths = <<>> /\ debounce = <<>> /\ timers = <<>>
  /\ nextTimer = 1 /\ events = <<>>
  /\ pc = "watch"

\* watchPackages (watcher.ts 41-129): nothing for an empty declaration set,
\* else the watch paths, the watcher and the empty debounce table
\* Variant: watchPackages without the early return on an empty set.
StartWatchNoReturn ==
  /\ pc = "watch"
  /\ watchPaths' = watchPathsOf(watchedPackages)
  /\ pc' = "watching"
  /\ debounce' = <<>>
  /\ UNCHANGED <<inputVars, linkVars, recVars, parseVars, mainVars,
                 srcDirs, timers,
                 nextTimer, events>>

StartWatch ==
  /\ pc = "watch"
  /\ IF Len(watchedPackages) = 0
     THEN /\ pc' = "exit"
          /\ UNCHANGED watchPaths
     ELSE /\ watchPaths' = watchPathsOf(watchedPackages)
          /\ pc' = "watching"
  /\ debounce' = <<>>
  /\ UNCHANGED <<inputVars, linkVars, recVars, parseVars, mainVars,
                 srcDirs, timers,
                 nextTimer, events>>

Change(name, path) == [ev |-> "change", name |-> name, path |-> path]
Rebuild(name, id) == [ev |-> "rebuild", name |-> name, id |-> id]

ChangesSoFar == Len(SelectSeq(events, LAMBDA e : e.ev = "change"))

\* the change handler without its clearTimeout
OnChangeKeepingTimer ==
  /\ pc = "watching"
  /\ ChangesSoFar < MaxEvents
  /\ \E changedPath \in ChangedPaths :
       IF matching(changedPath) = {}
       THEN /\ events' = Append(events, Change(Null, changedPath))
            /\ UNCHANGED <<debounce, timers, nextTimer>>
       ELSE LET name == watchPaths[Min(matching(changedPath))].name
            IN /\ events' = Append(events, Change(<<name>>, changedPath))
               /\ timers' = Append(timers,
                                   [id |-> nextTimer, name |-> name,
                                    delay |-> DebounceMs])
               /\ debounce' = (name :> nextTimer) @@ debounce
               /\ nextTimer' = nextTimer + 1
  /\ UNCHANGED <<inputVars, linkVars, recVars, parseVars, mainVars,
                 srcDirs, watchPaths,
                 pc>>

\* watcher.on("change", ...) (watcher.ts 96-123): the first matching
\* package's pending timer is cleared and a new one is armed
OnChange ==
  /\ pc = "watching"
  /\ ChangesSoFar < MaxEvents
  /\ \E changedPath \in ChangedPaths :
       IF matching(changedPath) = {}
       THEN /\ events' = Append(events, Change(Null, changedPath))
            /\ UNCHANGED <<debounce, timers, nextTimer>>
       ELSE LET name == watchPaths[Min(matching(changedPath))].name
            IN /\ events' = Append(events, Change(<<name>>, changedPath))
               /\ timers' = Append(clearTimeout(name),
                                   [id |-> nextTimer, name |-> name,
                                    delay |-> DebounceMs])
               /\ debounce' = (name :> nextTimer) @@ debounce
               /\ nextTimer' = nextTimer + 1
  /\ UNCHANGED <<inputVars, linkVars, recVars, parseVars, mainVars,
                 srcDirs, watchPaths,
                 pc>>

\* the calls of buildPackage(name) followed by linkPackage(name), the
\* build's result being dropped; b, g, l are the outcomes of the commands
rebuildCalls(name, b, g, l) ==
  <<BuildCall(name, b), Call("globalLink", name, g)>>
    \o (IF g THEN <<Call("projectLink", name, l)>> ELSE <<>>)

\* the commands of one rebuild that fail although they were run
failedCommands(name, b, g, l) ==
  (IF commandRun(name) # Null /\ ~b THEN 1 ELSE 0) + (IF ~g THEN 1 ELSE 0)
    + (IF g /\ ~l THEN 1 ELSE 0)

\* a timer callback that rebuilds every declared package
OnTimerRebuildingAll ==
  /\ pc = "watching"
  /\ timers # <<>>
  /\ timers' = Tail(timers)
  /\ events' = Append(events, Rebuild(<<Head(timers).name>>, Head(timers).id))
  /\ calls' = calls \o rebuildCalls(localPackages[1], TRUE, TRUE, TRUE)
                    \o rebuildCalls(localPackages[Len(localPackages)],
                                    TRUE, TRUE, TRUE)
  /\ UNCHANGED <<inputVars, recVars, parseVars, mainVars, graph, dfsVars,
                 missingWarnings, packageOrder, idx, allSuccessful, failures,
                 result, srcDirs, watchPaths, debounce, nextTimer, pc>>

\* a timer callback that also drops the timers queued behind it
OnTimerDroppingQueued ==
  /\ pc = "watching"
  /\ timers # <<>>
  /\ LET name == Head(timers).name
     IN \E b, g, l \in BOOLEAN :
          /\ commandRun(name) = Null => b
          /\ (~g) => l
          /\ failures + failedCommands(name, b, g, l) <= MaxFailures
          /\ failures' = failures + failedCommands(name, b, g, l)
          /\ calls' = calls \o rebuildCalls(name, b, g, l)
          /\ events' = Append(events, Rebuild(<<name>>, Head(timers).id))
  /\ timers' = <<>>
  /\ UNCHANGED <<inputVars, recVars, parseVars, mainVars, graph, dfsVars,
                 missingWarnings, packageOrder, idx, allSuccessful, result,
                 srcDirs, watchPaths, debounce, nextTimer, pc>>

\* The debounce callback (watcher.ts 114-121) of the timer that is due
\* first.  All timers have the same delay, so they fire in the order they
\* were armed.
OnTimer ==
  /\ pc = "watching"
  /\ timers # <<>>
  /\ LET name == Head(timers).name
     IN \E b, g, l \in BOOLEAN :
          /\ commandRun(name) = Null => b
          /\ (~g) => l
          /\ failures + failedCommands(name, b, g, l) <= MaxFailures
          /\ failures' = failures + failedCommands(name, b, g, l)
          /\ calls' = calls \o rebuildCalls(name, b, g, l)
          /\ events' = Append(events, Rebuild(<<name>>, Head(timers).id))
  /\ timers' = Tail(timers)
  /\ UNCHANGED <<inputVars, recVars, parseVars, mainVars, graph, dfsVars,
                 missingWarnings, packageOrder, idx, allSuccessful, result,
                 srcDirs, watchPaths, debounce, nextTimer, pc>>

\* the packages that can be declared in watch mode
WatchNames == {<<1>>, <<2>>}

NextWatch ==
  \/ StartWatch
  \/ OnChange
  \/ OnTimer

SpecWatch == InitWatch /\ [][NextWatch]_vars

\* Node runs the callback of every timer that is not cleared.  That every
\* change leads to a rebuild is checked for two declared packages with the
\* default watch patterns, no src directory and readable manifests.
InitFairWatch ==
  /\ InitWatch
  /\ srcDirs = {}
  /\ \A p \in DOMAIN fs : Readable(p)
  /\ Len(watchedPackages) = 2
  /\ \A i \in 1..Len(watchedPackages) :
       watchedPackages[i].watchPatterns = Null

FairWatch == InitFairWatch /\ [][NextWatch]_vars /\ WF_vars(OnTimer)

\* ---- the two exported entry points called one after the other
\* A caller of linkAllPackages and watchPackages that, unlike main, hands
\* them any declaration set, the empty one included.
InitCalls ==
  /\ MainIdle
  /\ ParseIdle
  /\ LinkIdle
  /\ \E decls \in {<<>>} \cup
                   {d \in WatchDecls :
                      \A i \in 1..Len(d) : d[i].watchPatterns = Null} :
       /\ declared = (ProjectRoot :> decls)
       /\ localPackages = [i \in 1..Len(decls) |-> decls[i].name]
  /\ configs = <<>>
  /\ \E es \in {<<>>, <<<<<<1>>, 1, <<2>>>>>>} :
       /\ es # <<>> => Len(localPackages) = 2
       /\ fs = [p \in Range(localPackages) |-> PackageJson(es, p, "ok")]
  /\ resolveDependencies \in BOOLEAN
  /\ failing = {}
  /\ cwd = ProjectRoot /\ processed = {} /\ rstack = <<>>
  /\ rootI = 1 /\ expansions = <<>> /\ steps = <<>>
  /\ srcDirs = {}
  /\ watchPaths = <<>> /\ debounce = <<>> /\ timers = <<>>
  /\ nextTimer = 1 /\ events = <<>>
  /\ pc = "start"

\* watchPackages(localPackages, ...) is called once linkAllPackages has
\* returned
CallWatchPackages ==
  /\ pc = "done"
  /\ pc' = "watch"
  /\ UNCHANGED <<inputVars, linkVars, recVars, parseVars, watchVars, mainVars>>

\* The runs end with the change events that arm the timers; the callbacks
\* of the timers are studied under SpecWatch.
NextCalls ==
  \/ Next
  \/ CallWatchPackages
  \/ StartWatch
  \/ OnChange

SpecCalls == InitCalls /\ [][NextCalls]_vars

\* ------------------------------------------- vocabulary of the properties
\* These are stated over the inputs (localPackages, fs), not over the
\* resolver's own data structures.
Declared == Range(localPackages)

GraphNodes == {p \in Declared : fs[p].status = "ok"}

NamedBy(a) ==
  Range(fs[a].dependencies) \cup Range(fs[a].devDependencies)
    \cup Range(fs[a].peerDependencies)

\* a's manifest names b, and both are graph nodes
Dep(a, b) == a \in GraphNodes /\ b \in GraphNodes /\ b \in NamedBy(a)

RECURSIVE Closure(_)
Closure(S) ==
  LET T == S \cup {d \in GraphNodes : \E x \in S : Dep(x, d)}
  IN IF T = S THEN S ELSE Closure(T)

\* b is reachable from a along one or more dependency edges
Reach(a, b) == b \in Closure({d \in GraphNodes : Dep(a, d)})

Acyclic == \A a \in GraphNodes : ~Reach(a, a)

CycleNodes == {a \in GraphNodes : Reach(a, a)}

\* The dependency relation has exactly one (simple) cycle: the nodes lying
\* on cycles form one strongly connected set, and each of them has exactly
\* one edge leading to another of them.
ExactlyOneCycle ==
  /\ CycleNodes # {}
  /\ \A a, b \in CycleNodes : Reach(a, b)
  /\ \A a \in CycleNodes : Cardinality({b \in CycleNodes : Dep(a, b)}) = 1

AllReadable == GraphNodes = Declared

Pos(s, x) == CHOOSE i \in 1..Len(s) : s[i] = x

NoDuplicates(s) == \A i, j \in 1..Len(s) : s[i] = s[j] => i = j

IsPermutationOf(s, S) == Range(s) = S /\ NoDuplicates(s)

\* a dependency named in more than one of a package's three lists
DuplicateEdge ==
  \E a \in GraphNodes :
    \E d \in Range(fs[a].dependencies) :
      d \in Range(fs[a].devDependencies) \cup Range(fs[a].peerDependencies)

\* getTopologicalOrder has returned and its result is in packageOrder
OrderReturned == pc = "missing"

\* ------------------------------------------------------------------- C1
\* C1: for an acyclic graph with every manifest readable, the sequence
\* returned by getTopologicalOrder has every local dependency strictly
\* before each package that depends on it.
C1_DependenciesFirst ==
  (OrderReturned /\ AllReadable /\ Acyclic) =>
    \A a, b \in GraphNodes :
      Dep(a, b) => Pos(packageOrder, b) < Pos(packageOrder, a)

\* ------------------------------------------------------------------- C2
BuildCallOf(i, p) == calls[i].op = "build" /\ calls[i].name = p

\* C2: with resolveDependencies, an acyclic declaration set and readable
\* manifests, when A depends on B the build and the link calls for B all
\* occur before the build call for A.
C2_DependencyBuiltAndLinkedFirst ==
  (pc = "done" /\ resolveDependencies /\ AllReadable /\ Acyclic) =>
    \A a, b \in GraphNodes :
      Dep(a, b) =>
        \A j \in 1..Len(calls) :
          BuildCallOf(j, a) =>
            /\ \E i \in 1..(j - 1) : BuildCallOf(i, b)
            /\ \A i \in 1..Len(calls) : calls[i].name = b => i < j

\* ------------------------------------------------------------------- C3
\* C3: getTopologicalOrder terminates and returns a sequence for every
\* graph, cyclic ones, self-dependencies and duplicate edges included; it
\* never throws.
C3_ResolutionTerminates == <>OrderReturned

C3_Witness ==
  /\ OrderReturned
  /\ DuplicateEdge
  /\ \E a \in GraphNodes : Dep(a, a)
  /\ Len(cycleWarnings) >= 2

\* ------------------------------------------------------------------- C4
\* C4: for a graph with exactly one cycle, exactly one circular-dependency
\* warning is emitted, it names a node of that cycle, and every graph node
\* is in the output exactly once.
C4_OneWarningPerCycle ==
  (OrderReturned /\ ExactlyOneCycle) =>
    /\ Len(cycleWarnings) = 1
    /\ cycleWarnings[1] \in CycleNodes
    /\ IsPermutationOf(packageOrder, GraphNodes)

\* ------------------------------------------------------------------- C5
\* the order linkAllPackages is about to iterate over is final
OrderFinal == pc = "build"

\* C5: with resolveDependencies, the final packageOrder is a permutation
\* of the declared names, whatever manifests are unreadable and whatever
\* cycles there are.
C5_FinalOrderIsPermutation ==
  (OrderFinal /\ resolveDependencies) =>
    IsPermutationOf(packageOrder, Declared)

C5_Witness ==
  /\ OrderFinal /\ resolveDependencies
  /\ Declared \ GraphNodes # {}
  /\ ~Acyclic
  /\ \E a, b, c \in GraphNodes : a # b /\ Dep(a, c) /\ Dep(b, c)

\* ------------------------------------------------------------------- C7
\* the declared packages without a readable manifest, in declaration order
Stragglers == Filter(localPackages, Declared \ GraphNodes)

\* C7: the packages with an unreadable manifest come after all graph
\* members, in declaration order, under exactly one warning naming all of
\* them; without such a package there is no such warning.
C7_StragglersAppended ==
  /\ Len(missingWarnings) <= 1
  /\ (OrderFinal /\ resolveDependencies) =>
       /\ SubSeq(packageOrder, Cardinality(GraphNodes) + 1, Len(packageOrder))
            = Stragglers
       /\ Range(SubSeq(packageOrder, 1, Cardinality(GraphNodes))) = GraphNodes
       /\ missingWarnings = IF Stragglers = <<>> THEN <<>> ELSE <<Stragglers>>

C7_Witness ==
  /\ OrderFinal /\ resolveDependencies
  /\ Len(Stragglers) >= 2
  /\ \E a \in GraphNodes : a > Stragglers[1]

\* ------------------------------------------------------------------- C8
GraphBuilt == resolveDependencies /\ pc \notin {"start", "done"}

\* C8: the keys of the graph are exactly the declared names whose manifest
\* exists and parses, in declaration order; an unreadable manifest removes
\* that name only, and every other node carries its own manifest's lists.
C8_GraphKeysAreReadablePackages ==
  GraphBuilt =>
    /\ graphKeys(graph) = Filter(localPackages, GraphNodes)
    /\ \A i \in 1..Len(graph) :
         /\ graph[i].dependencies = fs[graph[i].name].dependencies
         /\ graph[i].devDependencies = fs[graph[i].name].devDependencies
         /\ graph[i].peerDependencies = fs[graph[i].name].peerDependencies

C8_Witness ==
  /\ GraphBuilt
  /\ \E a, b, c \in Declared :
       /\ a < b /\ b < c
       /\ a \in GraphNodes /\ b \notin GraphNodes /\ c \in GraphNodes
       /\ b \in NamedBy(c)

\* ------------------------------------------------------------------- C9
LinkOps == {"globalLink", "projectLink"}

BuildCalls == SelectSeq(calls, LAMBDA c : c.op = "build")

Returned == pc = "done" /\ localPackages # <<>>

\* C9: Build precedes Link for each package; after a failed build no link
\* step is invoked for that package; and the build of every package of the
\* order is invoked, whatever failed before it.
C9_BuildThenLinkWithFaultIsolation ==
  /\ \A j \in 1..Len(calls) :
       calls[j].op \in LinkOps =>
         \E i \in 1..(j - 1) : BuildCallOf(i, calls[j].name) /\ calls[i].ok
  /\ \A i \in 1..Len(calls) :
       (calls[i].op = "build" /\ ~calls[i].ok) =>
         \A j \in 1..Len(calls) :
           calls[j].op \in LinkOps => calls[j].name # calls[i].name
  /\ Returned =>
       [i \in 1..Len(BuildCalls) |-> BuildCalls[i].name] = packageOrder

C9_Witness ==
  /\ Returned
  /\ calls[1].op = "build" /\ ~calls[1].ok
  /\ \E i, j \in 2..Len(calls) :
       /\ i < j
       /\ calls[i].op \in LinkOps /\ ~calls[i].ok
       /\ calls[j].op = "projectLink" /\ calls[j].ok

\* ------------------------------------------------------------------ C10
Succeeded(op, p) ==
  \E i \in 1..Len(calls) :
    calls[i].op = op /\ calls[i].name = p /\ calls[i].ok

\* C10: for a non-empty declaration set linkAllPackages returns true
\* exactly when every declared package's build, global link and project
\* link succeeded.
C10_SuccessIffAllSucceeded ==
  Returned =>
    (result = <<TRUE>> <=>
       \A p \in Declared :
         /\ Succeeded("build", p)
         /\ Succeeded("globalLink", p)
         /\ Succeeded("projectLink", p))

C10_Witness ==
  /\ Returned
  /\ result = <<FALSE>>
  /\ Len(packageOrder) >= 2
  /\ ~Succeeded("build", packageOrder[1])
  /\ \A i \in 2..Len(packageOrder) : Succeeded("projectLink", packageOrder[i])


\* ------------------------------------------------------------------ C11
\* C11: the pipeline is strictly sequential: every collaborator call for a
\* package precedes every call for a package later in the order.
C11_PackagesNeverInterleave ==
  \A a, b \in 1..Len(calls) :
    Pos(packageOrder, calls[a].name) < Pos(packageOrder, calls[b].name)
      => a < b

C11_Witness ==
  /\ Returned
  /\ Len(packageOrder) >= 2
  /\ \A i \in 1..2 : Succeeded("projectLink", packageOrder[i])


\* ------------------------------------------------------------------ C33
\* a step in which a link command is run
IsLinkStep ==
  /\ Len(calls') = Len(calls) + 1
  /\ calls'[Len(calls')].op \in LinkOps

\* C33: linkPackage runs the global link before the link into the project;
\* after a failed global link the project link is not run and linkPackage
\* returns false; otherwise it returns the result of the project link.  In
\* the calls: a project link directly follows a successful global link of
\* the same package, a failed global link is followed by no link, and a
\* successful one by the project link.  In linkAllPackages, which clears
\* allSuccessful exactly when linkPackage returns false: the flag is
\* cleared by a failed global link and takes the project link's result
\* otherwise.
C33_LinkPackageGlobalThenProject ==
  /\ [](\A i \in 1..Len(calls) :
          /\ calls[i].op = "projectLink" =>
               (i > 1 /\ calls[i - 1] = Call("globalLink", calls[i].name, TRUE))
          /\ (calls[i].op = "globalLink" /\ i < Len(calls)) =>
               IF calls[i].ok
               THEN calls[i + 1].op = "projectLink"
               ELSE calls[i + 1].op = "build"
          /\ (calls[i].op = "globalLink" /\ i = Len(calls)) =>
               (calls[i].ok <=> pc = "plink"))
  /\ [][IsLinkStep =>
          LET c == calls'[Len(calls')]
          IN IF c.op = "globalLink" /\ c.ok
             THEN UNCHANGED <<allSuccessful, idx>>
             ELSE /\ allSuccessful' =
                       (allSuccessful /\ c.op = "projectLink" /\ c.ok)
                  /\ idx' = idx + 1]_vars

\* linkAllPackages returned false after a global link that failed and was
\* followed by the next package's build, that package being linked
C33_Witness ==
  /\ Returned
  /\ result = <<FALSE>>
  /\ \E i \in 1..Len(calls) :
       /\ calls[i].op = "globalLink" /\ ~calls[i].ok
       /\ i < Len(calls)
       /\ calls[i + 1].op = "build"
  /\ calls[Len(calls)].op = "projectLink" /\ calls[Len(calls)].ok

\* ------------------------------------------------------------------ C19
\* C19: the returned sequence is the post-order append sequence itself, no
\* reversal applied; so without dependency edges it is the declaration
\* order of the graph members.
C19_PostOrderReturnedUnreversed ==
  OrderReturned =>
    /\ packageOrder = order
    /\ (\A a, b \in GraphNodes : ~Dep(a, b)) =>
         packageOrder = Filter(localPackages, GraphNodes)

\* ------------------------------------------------------------------ C20
\* C20: in every graph, for every dependency edge A -> B between graph
\* nodes on which no cycle warning was emitted, B precedes A in the output.
C20_UnwarnedEdgesDependencyFirst ==
  OrderReturned =>
    \A a, b \in GraphNodes :
      (Dep(a, b) /\ <<a, b>> \notin Range(backEdges)) =>
        Pos(packageOrder, b) < Pos(packageOrder, a)

\* ------------------------------------------------------------------ C21
\* the names of the activations of visit(), outermost first
OnStack == [i \in 1..Len(stack) |-> stack[i].name]

TimesIn(s, x) == Cardinality({i \in 1..Len(s) : s[i] = x})

\* C21: a package whose manifest names itself is handled as a cycle: the
\* visit warns with that package's name, no second activation of the
\* package is opened for the self-edge, the package is in the output exactly
\* once, and nothing is thrown.
C21_SelfDependencyIsCycle ==
  /\ pc # "thrown"
  /\ \A a \in GraphNodes :
       Dep(a, a) =>
         /\ TimesIn(OnStack, a) <= 1
         /\ a \in visited =>
              /\ a \in Range(cycleWarnings)
              /\ <<a, a>> \in Range(backEdges)
         /\ OrderReturned => TimesIn(packageOrder, a) = 1

C21_Witness ==
  /\ OrderReturned
  /\ Len(graph) >= 2
  /\ \E a \in GraphNodes :
       /\ Dep(a, a)
       /\ \E b \in GraphNodes : b # a /\ Dep(b, a) /\ ~Dep(b, b)

\* ------------------------------------------------------------------ C22
\* C22: the output of getTopologicalOrder is a permutation of the graph's
\* keys: every node is appended exactly once, and a dependency name that is
\* not a graph key is never visited and never in the output.
C22_OutputIsPermutationOfKeys ==
  /\ NoDuplicates(order)
  /\ Range(order) \subseteq GraphNodes
  /\ \A i \in 1..Len(stack) :
       /\ stack[i].name \in GraphNodes
       /\ Range(stack[i].localDeps) \subseteq GraphNodes
  /\ OrderReturned =>
       /\ IsPermutationOf(packageOrder, Range(graphKeys(graph)))
       /\ Range(graphKeys(graph)) = GraphNodes

\* a node that names another node and also a declared package that is not
\* a graph key, the manifest of that package being unreadable
C22_Witness ==
  /\ OrderReturned
  /\ \E a, c \in GraphNodes :
       /\ a # c /\ Dep(a, c)
       /\ NamedBy(a) \cap (Declared \ GraphNodes) # {}

\* ---- vocabulary of the expansion
\* how often the nested config of package n in directory d was read
TimesExpanded(n, d) ==
  Cardinality({i \in 1..Len(expansions) :
                 expansions[i].name = n /\ expansions[i].path = d})

RecursionResolved == pc = "resolved"

\* C12: each (packageName, resolved absolute path) pair is expanded at most
\* once during one linkRecursiveDependencies run.
C12_ExpandedAtMostOnce ==
  \A i, j \in 1..Len(expansions) :
    (expansions[i].name = expansions[j].name
       /\ expansions[i].path = expansions[j].path) => i = j

\* how often the step op was made for package n on directory d
TimesStepped(op, n, d) ==
  Cardinality({i \in 1..Len(steps) :
                 steps[i].op = op /\ steps[i].name = n /\ steps[i].path = d})

\* Root package 1 lives in dA and declares 2, which lives in dD and declares
\* 1 back; nothing else is declared.
MutualPair(dA, dD) ==
  /\ dA # dD /\ dA # ProjectRoot /\ dD # ProjectRoot
  /\ Len(rootPackages) = 1
  /\ rootPackages[1].name = <<1>>
  /\ resolve(ProjectRoot, rootPackages[1].path) = dA
  /\ Len(readConfigIn(dA)) = 1
  /\ readConfigIn(dA)[1].name = <<2>>
  /\ resolve(dA, readConfigIn(dA)[1].path) = dD
  /\ Len(readConfigIn(dD)) = 1
  /\ readConfigIn(dD)[1].name = <<1>>
  /\ resolve(dD, readConfigIn(dD)[1].path) = dA

\* C13: when root package A declares D and D declares A back, D is built and
\* linked into A exactly once, and A's nested config is read exactly once.
C13_ReverseEdgeAbsorbed ==
  \A dA, dD \in DOMAIN configs :
    (MutualPair(dA, dD) /\ RecursionResolved) =>
      /\ TimesExpanded(<<1>>, dA) = 1
      /\ TimesStepped("build", <<2>>, dD) = 1
      /\ TimesStepped("globalLink", <<2>>, dD) = 1
      /\ TimesStepped("projectLink", <<2>>, dD) = 1

\* C14: linkRecursiveDependencies terminates: its promise resolves, and the
\* number of expansions never exceeds the number of keys in the processed set.
C14_ExpansionTerminates ==
  /\ <>RecursionResolved
  /\ [](Len(expansions) <= Cardinality(processed))

\* the same dependency was reached twice at the same absolute path (a cycle
\* or a diamond), so the second recursive call met the guard, and the run ended
C14_Witness ==
  /\ RecursionResolved
  /\ \E i, j \in 1..Len(steps) :
       /\ i < j
       /\ steps[i].op = "build" /\ steps[j].op = "build"
       /\ steps[i].name = steps[j].name
       /\ steps[i].path = steps[j].path

\* ---- the working directory and the call tree of the expansion
Activations == 1..Len(expansions)

\* activation a is b or was called, directly or not, from b
RECURSIVE Within(_, _)
Within(a, b) ==
  IF a = b THEN TRUE
  ELSE IF a = 0 THEN FALSE
  ELSE Within(expansions[a].from, b)

\* the package whose nested config declared the dependency of step i
ParentOf(i) == expansions[steps[i].in]

\* ------------------------------------------------------------------ C23
\* C23: the expansion restores the working directory: a call that is inside
\* its loop stands where it was entered, the call it was made from stands
\* where that one was entered, and between the root calls and after the last
\* of them the working directory is the project root.
C23_WorkingDirectoryRestored ==
  /\ rstack = <<>> => cwd = ProjectRoot
  /\ rstack # <<>> => cwd = rstack[Len(rstack)].currentDir
  /\ \A i \in 1..Len(rstack) :
       rstack[i].currentDir =
         IF i = 1 THEN ProjectRoot ELSE rstack[i - 1].currentDir

\* a finished run with a failing command, a nested config read one level
\* down and a dependency without a nested config
C23_Witness ==
  /\ RecursionResolved
  /\ failing # {}
  /\ \E a \in Activations :
       expansions[a].depth >= 1 /\ expansions[a].path # ProjectRoot
  /\ \E i \in 1..Len(steps) : ~existsConfig(steps[i].path)

\* ------------------------------------------------------------------ C24
\* C24: the link-into-project step for a dependency of parent P runs with
\* the working directory at P's resolved directory, and P's nested config
\* is read with the working directory there.
C24_LinkedInParentDirectory ==
  /\ \A a \in Activations :
       /\ expansions[a].at = expansions[a].path
       /\ expansions[a].from = 0 =>
            expansions[a].path =
              resolve(ProjectRoot, rootPackages[expansions[a].root].path)
       /\ expansions[a].from # 0 =>
            expansions[a].path = steps[expansions[a].via].path
  /\ \A i \in 1..Len(steps) :
       steps[i].op = "projectLink" => steps[i].at = ParentOf(i).path

C24_Witness ==
  /\ RecursionResolved
  /\ \E i \in 1..Len(steps) :
       /\ steps[i].op = "projectLink"
       /\ steps[i].depth >= 2
       /\ steps[i].at # ProjectRoot
       /\ steps[i - 1].at = ProjectRoot

\* ------------------------------------------------------------------ C25
\* the declaration of step i's dependency in its parent's nested config
DeclaredAs(i) ==
  LET deps == readConfigIn(ParentOf(i).path)
  IN deps[CHOOSE k \in 1..Len(deps) : deps[k].name = steps[i].name]

TripleAt(k) ==
  /\ steps[3 * k + 1].op = "build"
  /\ steps[3 * k + 2].op = "globalLink"
  /\ steps[3 * k + 3].op = "projectLink"
  /\ \A d \in 2..3 :
       /\ steps[3 * k + d].name = steps[3 * k + 1].name
       /\ steps[3 * k + d].path = steps[3 * k + 1].path
       /\ steps[3 * k + d].in = steps[3 * k + 1].in

\* C26: the expansion is sequential and depth-first: each dependency gets
\* build, global link, link into its parent, then the recursive call; all
\* steps below a dependency come in one block right after its link, before
\* the next sibling's build; and the root declarations are expanded one
\* after the other.
C26_SequentialDepthFirst ==
  /\ Len(steps) % 3 = 0
  /\ \A k \in 0..((Len(steps) \div 3) - 1) : TripleAt(k)
  /\ \A b \in Activations :
       expansions[b].from # 0 =>
         LET v == expansions[b].via IN
         /\ steps[v].op = "projectLink"
         /\ steps[v].in = expansions[b].from
         /\ \A j \in 1..Len(steps) :
              Within(steps[j].in, b) =>
                /\ j > v
                /\ \A m \in (v + 1)..j : Within(steps[m].in, b)
  /\ \A a, b \in Activations :
       a < b => expansions[a].root <= expansions[b].root
  /\ \A i, j \in 1..Len(steps) :
       i < j => ParentOf(i).root <= ParentOf(j).root

\* a dependency whose subtree made steps, followed by a sibling
C26_Witness ==
  /\ RecursionResolved
  /\ \E i, j, k \in 1..Len(steps) :
       /\ i < j /\ j < k
       /\ steps[i].in = steps[k].in
       /\ steps[i].name # steps[k].name
       /\ steps[j].in # steps[i].in
       /\ Within(steps[j].in, steps[i].in)

\* ------------------------------------------------------------------ C27
\* C27: a failed build, global link or project link stops nothing: when the
\* expansion has ended, every dependency declared in every nested config
\* that was read has had its three steps, and every root declaration has
\* been taken up.
C27_FailuresDoNotStopExpansion ==
  /\ pc # "thrown"
  /\ RecursionResolved =>
       /\ \A a \in Activations :
            \A k \in 1..Len(readConfigIn(expansions[a].path)) :
              \A op \in Ops :
                \E i \in 1..Len(steps) :
                  /\ steps[i].in = a
                  /\ steps[i].op = op
                  /\ steps[i].name = readConfigIn(expansions[a].path)[k].name
       /\ \A r \in 1..Len(rootPackages) :
            rootPackages[r].name \o <<COLON>> \o rootPackages[r].path
              \in processed

\* a failed step with a later sibling, a later step of an ancestor
C27_Witness ==
  /\ RecursionResolved
  /\ \E i, j, k \in 1..Len(steps) :
       /\ i < j /\ j < k
       /\ ~steps[i].ok
       /\ steps[j].in = steps[i].in /\ steps[j].name # steps[i].name
       /\ steps[k].in # steps[i].in /\ Within(steps[i].in, steps[k].in)

\* ---- vocabulary of the config lines
AnnotationsOfKind(f, k) ==
  SelectSeq(f.annotations, LAMBDA a : a.kind = k)

\* path, then the two bracketed annotations of the README in either order,
\* the build command being optional
Documented(f) ==
  /\ \A i \in 1..Len(f.annotations) :
       f.annotations[i].kind \in {"build", "watch"}
  /\ Len(AnnotationsOfKind(f, "watch")) = 1
  /\ Len(AnnotationsOfKind(f, "build")) <= 1

Expected(f) ==
  [name |-> f.name,
   path |-> f.path,
   buildCommand |->
     IF AnnotationsOfKind(f, "build") = <<>> THEN Null
     ELSE <<AnnotationsOfKind(f, "build")[1].val>>,
   watchPatterns |-> <<AnnotationsOfKind(f, "watch")[1].val>>]

\* C17: a line `name = path [buildCmd] [watch:p1,p2]`, with the build command
\* optional and the two annotations in either order, parses to that path,
\* that build command and the watch patterns [p1, p2].
C17_DocumentedAnnotationsParsed ==
  \A f \in LineForms :
    (pc = "parsed" /\ Documented(f) /\ line = LineText(f)) =>
      parsed = <<<<Expected(f)>>>>

\* ---- vocabulary of watch mode
\* the change events attributed to package p and the rebuilds of p, in order
EventsOf(p) == SelectSeq(events, LAMBDA e : e.name = <<p>>)

\* the armed timers of package p
Pending(p) == SelectSeq(timers, LAMBDA t : t.name = p)

\* C15: a burst of change events for one package, each arriving while the
\* timer of the one before is pending, produces exactly one rebuild, after
\* the last event of the burst: in the events of a package every rebuild
\* directly follows a change, and a timer is pending exactly while the last
\* event is a change, namely the timer that the last change armed.
C15_BurstGivesOneRebuild ==
  \A p \in Range(localPackages) :
    LET es == EventsOf(p)
    IN /\ \A i \in 1..Len(es) :
            es[i].ev = "rebuild" => (i > 1 /\ es[i - 1].ev = "change")
       /\ IF es # <<>> /\ es[Len(es)].ev = "change"
          THEN Len(Pending(p)) = 1 /\ Pending(p)[1].id = debounce[p]
          ELSE Pending(p) = <<>>

\* two changes of one package within the window, then its one rebuild
C15_Witness ==
  \E p \in Range(localPackages) :
    LET es == EventsOf(p)
    IN /\ Len(es) = 3
       /\ es[1].ev = "change" /\ es[2].ev = "change" /\ es[3].ev = "rebuild"
       /\ Pending(p) = <<>>

\* a step that runs a debounce callback
IsRebuildStep ==
  /\ Len(events') = Len(events) + 1
  /\ events'[Len(events')].ev = "rebuild"

\* C16: a rebuild for package P makes build and link calls for P only, the
\* build first, and runs neither buildDependencyGraph nor
\* getTopologicalOrder.
C16_RebuildTouchesOnePackage ==
  [][IsRebuildStep =>
       /\ Len(calls') > Len(calls)
       /\ SubSeq(calls', 1, Len(calls)) = calls
       /\ calls'[Len(calls) + 1].op = "build"
       /\ \A i \in (Len(calls) + 1)..Len(calls') :
            <<calls'[i].name>> = events'[Len(events')].name
       /\ UNCHANGED <<graph, dfsVars, packageOrder>>]_vars

\* a package was rebuilt while another declared package had a timer pending
C16_Witness ==
  /\ events # <<>>
  /\ events[Len(events)].ev = "rebuild"
  /\ calls # <<>>
  /\ \E q \in Range(localPackages) :
       /\ <<q>> # events[Len(events)].name
       /\ Pending(q) # <<>>


\* ------------------------------------------------------------------ C28
\* C28: a debounced rebuild runs Build first and Link only if that Build
\* succeeded: a failed build call is never followed by a link call for the
\* same package.
C28_RebuildSkipsLinkAfterFailedBuild ==
  \A i \in 1..Len(calls) :
    (calls[i].op = "build" /\ ~calls[i].ok) =>
      (i = Len(calls) \/ calls[i + 1].op = "build")

\* ------------------------------------------------------------------ C29
\* the last event is a change attributed to package p
ChangeStepFor(p) ==
  /\ Len(events') = Len(events) + 1
  /\ events'[Len(events')] \in {Change(<<p>>, c) : c \in ChangedPaths}

\* where the timer id stands in the queue ts
QueuePos(ts, id) == CHOOSE i \in 1..Len(ts) : ts[i].id = id

LastEventOf(p) == EventsOf(p)[Len(EventsOf(p))]

\* C29: debouncing is per package: a change attributed to P leaves the
\* pending timer of every other package Q armed, with the same id and not
\* further back in the queue, and replaces P's own; and a package with an
\* event has a rebuild pending or has been rebuilt.
C29_DebouncePerPackage ==
  /\ [][\A p, q \in WatchNames :
          (ChangeStepFor(p) /\ p # q) =>
            /\ Pending(q)' = Pending(q)
            /\ q \in DOMAIN debounce =>
                 (q \in DOMAIN debounce' /\ debounce'[q] = debounce[q])
            /\ \A k \in 1..Len(Pending(q)) :
                 QueuePos(timers', Pending(q)[k].id)
                   <= QueuePos(timers, Pending(q)[k].id)
            /\ Len(Pending(p)') = 1
            /\ Pending(p)'[1].id = nextTimer]_vars
  /\ [](\A p \in WatchNames :
          EventsOf(p) # <<>> =>
            Pending(p) # <<>> \/ LastEventOf(p).ev = "rebuild")

\* Q changed, then P twice, then Q's rebuild ran while P's timer is pending
C29_Witness ==
  /\ Len(events) = 4
  /\ events[1].ev = "change" /\ events[1].name # Null
  /\ events[2].ev = "change" /\ events[2].name # Null
  /\ events[2].name # events[1].name
  /\ events[3] = events[2]
  /\ events[4].ev = "rebuild" /\ events[4].name = events[1].name
  /\ Len(timers) = 1 /\ <<timers[1].name>> = events[2].name

\* ------------------------------------------------------------------ C30
\* the last event of package p is a change: a rebuild of p is due
RebuildDue(p) == EventsOf(p) # <<>> /\ LastEventOf(p).ev = "change"

Rebuilt(p) == EventsOf(p) # <<>> /\ LastEventOf(p).ev = "rebuild"

\* C30: once the changes of P stop coming within the window, every change
\* attributed to P is followed by a rebuild of P; a change that arrives
\* while P's timer is pending runs no rebuild and removes that timer.
C30_ChangeLeadsToRebuild ==
  /\ \A p \in WatchNames : RebuildDue(p) ~> Rebuilt(p)
  /\ [][\A p \in WatchNames :
          ChangeStepFor(p) =>
            /\ calls' = calls
            /\ p \in DOMAIN debounce =>
                 \A k \in 1..Len(timers') : timers'[k].id # debounce[p]]_vars

\* both packages changed, the first one again within its window, and both
\* have been rebuilt
C30_Witness ==
  /\ timers = <<>>
  /\ \A p \in WatchNames : p \in Range(localPackages) /\ Rebuilt(p)
  /\ \E p \in WatchNames :
       Len(SelectSeq(EventsOf(p), LAMBDA e : e.ev = "change")) = 2
         /\ Len(EventsOf(p)) = 3

\* ------------------------------------------------------------------ C31
\* the changes and the rebuilds among the events
ChangeEvents == SelectSeq(events, LAMBDA e : e.ev = "change")

RebuildEvents == SelectSeq(events, LAMBDA e : e.ev = "rebuild")

\* C31: at every moment of watch mode each package name has at most one
\* armed timer, the one the debounce table holds for it, and no timer id is
\* armed twice.
C31_OnePendingTimerPerPackage ==
  /\ \A p \in WatchNames :
       /\ Len(Pending(p)) <= 1
       /\ Pending(p) # <<>> =>
            (p \in DOMAIN debounce /\ Pending(p)[1].id = debounce[p])
  /\ \A i, j \in 1..Len(timers) : timers[i].id = timers[j].id => i = j
  /\ \A i \in 1..Len(timers) : timers[i].name \in Range(localPackages)

\* after a rebuild has run, a package changed twice within its window and
\* has one timer armed
C31_Witness ==
  /\ RebuildEvents # <<>>
  /\ \E p \in WatchNames :
       LET es == EventsOf(p)
       IN /\ Len(es) >= 2
          /\ es[Len(es)].ev = "change" /\ es[Len(es) - 1].ev = "change"
          /\ Len(Pending(p)) = 1

\* ------------------------------------------------------------------ C32
\* the text of a pattern before its first '*'
BeforeStar(pattern) ==
  LET stars == {i \in 1..Len(pattern) : pattern[i] = STAR}
  IN IF stars = {} THEN pattern
     ELSE SubSeq(pattern, 1, (CHOOSE i \in stars : \A j \in stars : i <= j) - 1)

\* d is a prefix of the path c
IsPrefixOf(d, c) ==
  \E rest \in {SubSeq(c, k, Len(c)) : k \in 1..(Len(c) + 1)} : c = d \o rest

\* the i-th declared package has a pattern under which the path c lies
WatchesPath(i, c) ==
  \E k \in 1..Len(watchPaths[i].path) :
    IsPrefixOf(BeforeStar(watchPaths[i].path[k]), c)

\* a step that handles a change event
IsChangeStep ==
  /\ Len(events') = Len(events) + 1
  /\ events'[Len(events')].ev = "change"

\* C32: a change event arms the timer of at most one package, the first
\* package in declaration order with a pattern whose directory part is a
\* prefix of the changed path, and leaves every other package's timers as
\* they are; when no pattern matches, nothing is armed and nothing is
\* rebuilt.  So of two packages whose watched directories are nested the
\* one declared first gets the changes inside the inner one.
C32_ChangeArmsFirstMatchingPackage ==
  /\ [](pc = "watching" =>
          /\ Len(watchPaths) = Len(localPackages)
          /\ \A i \in 1..Len(watchPaths) :
               watchPaths[i].name = localPackages[i])
  /\ [][IsChangeStep =>
          LET e == events'[Len(events')]
              M == {i \in 1..Len(watchPaths) : WatchesPath(i, e.path)}
          IN /\ calls' = calls
             /\ Len(timers') <= Len(timers) + 1
             /\ IF M = {}
                THEN e.name = Null /\ timers' = timers /\ debounce' = debounce
                ELSE LET first == CHOOSE i \in M : \A j \in M : i <= j
                     IN /\ e.name = <<localPackages[first]>>
                        /\ \A p \in WatchNames :
                             IF p = localPackages[first]
                             THEN /\ Pending(p)' =
                                       <<[id |-> nextTimer, name |-> p,
                                          delay |-> DebounceMs]>>
                                  /\ debounce'[p] = nextTimer
                             ELSE Pending(p)' = Pending(p)]_vars

\* the outer package is declared first and the inner one second, and a
\* change inside the inner package's directory armed the outer one's timer
C32_Witness ==
  /\ Len(watchPaths) = 2
  /\ events # <<>>
  /\ LET e == events[Len(events)]
     IN /\ e.ev = "change"
        /\ WatchesPath(1, e.path) /\ WatchesPath(2, e.path)
        /\ \E k \in 1..Len(watchPaths[1].path) :
             IsPrefixOf(BeforeStar(watchPaths[1].path[k]),
                        BeforeStar(watchPaths[2].path[1]))
        /\ e.name = <<localPackages[1]>>
        /\ Pending(localPackages[1]) # <<>>
        /\ Pending(localPackages[2]) = <<>>

\* ------------------------------------------------------------------ main
\* The lines a root config file is made of under main: two declarations, a
\* commented-out declaration, a blank line, and four malformed lines (no "=",
\* two "=", no name, no path).
DeclLines == {DeclText(<<1, RelPath(1)>>), DeclText(<<2, AbsPath(2)>>)}

OtherLines ==
  {<<HASH, SP, 1, SP, EQ, SP, SLASH, 1>>,
   <<SP>>,
   <<1, SP, SLASH, 1>>,
   <<1, EQ, SLASH, 1, EQ, 3>>,
   <<EQ, SP, SLASH, 1>>,
   <<1, SP, EQ>>}

MainLines == DeclLines \cup OtherLines

LineSeqs(lines, m) == UNION {[1..k -> lines] : k \in 0..m}

\* the lines of a file, one per line
RECURSIVE TextOf(_)
TextOf(ls) ==
  IF ls = <<>> THEN <<>>
  ELSE IF Len(ls) = 1 THEN Head(ls)
  ELSE Head(ls) \o <<NL>> \o TextOf(Tail(ls))

\* The root .localpackages: absent, present but not readable (readFileSync
\* throws), or a text of at most MaxLines lines.
RootFiles ==
  {[status |-> "missing", text |-> <<>>],
   [status |-> "unreadable", text |-> <<>>]}
  \cup {[status |-> "ok", text |-> TextOf(ls)] :
          ls \in LineSeqs(MainLines, MaxLines)}

\* the .localpackages of package directory 1, when it has one
NestedFiles ==
  {[status |-> "missing", text |-> <<>>],
   [status |-> "ok", text |-> DeclText(<<2, AbsPath(2)>>)]}

\* a run of main() that gets past --version, update and --help
InitMain ==
  /\ LinkIdle
  /\ ParseIdle
  /\ WatchIdle
  /\ \E root \in RootFiles, nested \in NestedFiles :
       configs = (ProjectRoot :> root) @@ (DirPath(1) :> nested)
                   @@ (DirPath(2) :> [status |-> "missing", text |-> <<>>])
  /\ declared = [p \in DOMAIN configs |-> readConfig(configs[p])]
  /\ localPackages = <<>>
  /\ \E unreadable \in {{}, {<<1>>}}, es \in {<<>>, <<<<<<2>>, 1, <<1>>>>>>} :
       fs = [p \in {<<1>>, <<2>>} |->
               PackageJson(es, p, IF p \in unreadable THEN "missing" ELSE "ok")]
  /\ resolveDependencies \in BOOLEAN
  /\ recursive \in BOOLEAN
  /\ watchMode \in BOOLEAN
  /\ phases = <<>>
  /\ failing = {}
  /\ cwd = ProjectRoot /\ processed = {} /\ rstack = <<>>
  /\ rootI = 1 /\ expansions = <<>> /\ steps = <<>>
  /\ pc = "main"

\* main without the early return on an empty configuration
MainReadNoReturn ==
  /\ pc = "main"
  /\ localPackages' = [i \in 1..Len(rootPackages) |-> rootPackages[i].name]
  /\ pc' = "start"
  /\ phases' = Append(phases, "linkAllPackages")
  /\ UNCHANGED <<fs, resolveDependencies, linkVars, recVars, parseVars,
                 watchVars, recursive, watchMode>>

\* main (index.ts 36-78): const localPackages = readConfig(); nothing more for
\* an empty mapping, else linkAllPackages(localPackages, ...)
MainRead ==
  /\ pc = "main"
  /\ localPackages' = [i \in 1..Len(rootPackages) |-> rootPackages[i].name]
  /\ IF Len(rootPackages) = 0
     THEN /\ pc' = "exit"
          /\ UNCHANGED phases
     ELSE /\ pc' = "start"
          /\ phases' = Append(phases, "linkAllPackages")
  /\ UNCHANGED <<fs, resolveDependencies, linkVars, recVars, parseVars,
                 watchVars, recursive, watchMode>>

\* Variant: main goes on without looking at linkAllPackages' result.
MainAfterLinkIgnoringSuccess ==
  /\ pc = "done"
  /\ IF recursive
     THEN /\ pc' = "recursive"
          /\ processed' = {}
          /\ phases' = Append(phases, "linkRecursiveDependencies")
     ELSE IF watchMode
     THEN /\ pc' = "watch"
          /\ phases' = Append(phases, "watchPackages")
          /\ UNCHANGED processed
     ELSE /\ pc' = "exit"
          /\ UNCHANGED <<phases, processed>>
  /\ UNCHANGED <<inputVars, linkVars, parseVars, watchVars, recursive,
                 watchMode, configs, declared, failing, cwd, rstack, rootI,
                 expansions, steps>>

\* main (index.ts 80-91), with success = linkAllPackages' result
MainAfterLink ==
  /\ pc = "done"
  /\ LET success == result[1] IN
     IF success /\ recursive
     THEN /\ pc' = "recursive"
          /\ processed' = {}
          /\ phases' = Append(phases, "linkRecursiveDependencies")
     ELSE IF success /\ watchMode
     THEN /\ pc' = "watch"
          /\ phases' = Append(phases, "watchPackages")
          /\ UNCHANGED processed
     ELSE /\ pc' = "exit"
          /\ UNCHANGED <<phases, processed>>
  /\ UNCHANGED <<inputVars, linkVars, parseVars, watchVars, recursive,
                 watchMode, configs, declared, failing, cwd, rstack, rootI,
                 expansions, steps>>

\* main (index.ts 82-87): the continuation of linkRecursiveDependencies
MainAfterRecursive ==
  /\ pc = "resolved"
  /\ IF watchMode
     THEN /\ pc' = "watch"
          /\ phases' = Append(phases, "watchPackages")
     ELSE /\ pc' = "exit"
          /\ UNCHANGED phases
  /\ UNCHANGED <<inputVars, linkVars, recVars, parseVars, watchVars,
                 recursive, watchMode>>

NextMain ==
  \/ MainRead
  \/ StartLinkAll
  \/ VisitRoot
  \/ VisitDep
  \/ VisitExit
  \/ ReturnOrder
  \/ AppendMissing
  \/ Build
  \/ CreateGlobalLink
  \/ LinkToProject
  \/ Finish
  \/ MainAfterLink
  \/ ProcessRoot
  \/ ProcessDep
  \/ ProcessReturn
  \/ FinishRecursive
  \/ MainAfterRecursive
  \/ StartWatch

SpecMain == InitMain /\ [][NextMain]_vars


\* ------------------------------------------------- empty configurations
\* the root config file holds no declaration: it is absent, unreadable, empty,
\* or made of comments, blank lines and malformed lines only
NoDeclaration ==
  LET file == configs[ProjectRoot]
  IN \/ file.status # "ok"
     \/ \E ls \in LineSeqs(OtherLines, MaxLines) : file.text = TextOf(ls)

NothingInvoked ==
  /\ phases = <<>>
  /\ calls = <<>>
  /\ steps = <<>> /\ expansions = <<>> /\ processed = {}
  /\ watchPaths = <<>> /\ timers = <<>> /\ events = <<>>

\* C18: for a config file that is absent, empty, unreadable or without any
\* well-formed declaration, readConfig returns the empty mapping and main
\* ends at once: no build, no link, no recursive expansion and no watcher.
C18_EmptyConfigDoesNothing ==
  NoDeclaration
    => /\ readConfig(configs[ProjectRoot]) = <<>>
       /\ localPackages = <<>>
       /\ pc \in {"main", "exit"}
       /\ NothingInvoked

\* main has returned on a readable, non-empty file without declarations
C18_Witness ==
  /\ pc = "exit"
  /\ NoDeclaration
  /\ configs[ProjectRoot].status = "ok"
  /\ configs[ProjectRoot].text # <<>>
  /\ watchMode /\ recursive


\* ------------------------------------------------------------------ C34
\* the recursive expansion, or the watcher, has been started
ExpansionStarted ==
  \/ "linkRecursiveDependencies" \in Range(phases)
  \/ pc \in {"recursive", "resolved"}
  \/ expansions # <<>> \/ steps # <<>> \/ rstack # <<>>

WatchStarted ==
  \/ "watchPackages" \in Range(phases)
  \/ pc \in {"watch", "watching"}
  \/ watchPaths # <<>>

\* every root package has been taken up and every call has returned
ExpansionCompleted ==
  /\ ExpansionStarted
  /\ rstack = <<>>
  /\ rootI > Len(rootPackages)
  /\ cwd = ProjectRoot

\* C34: in main the recursive expansion runs only if linkAllPackages
\* returned true and recursion was requested; the watcher starts only if
\* linkAllPackages returned true and watch was requested, and with both
\* requested only after the expansion has completed; after a false result
\* neither ever starts.
C34_ExpansionAndWatchNeedSuccess ==
  /\ ExpansionStarted => (result = <<TRUE>> /\ recursive)
  /\ WatchStarted => (result = <<TRUE>> /\ watchMode)
  /\ (WatchStarted /\ recursive) =>
       /\ ExpansionCompleted
       /\ phases = <<"linkAllPackages", "linkRecursiveDependencies",
                     "watchPackages">>
  /\ (WatchStarted /\ ~recursive) =>
       phases = <<"linkAllPackages", "watchPackages">>
  /\ result = <<FALSE>> =>
       (~ExpansionStarted /\ ~WatchStarted /\ pc \in {"done", "exit"})

\* both were requested, the expansion linked a nested dependency and the
\* watcher is running
C34_Witness ==
  /\ recursive /\ watchMode
  /\ pc = "watching"
  /\ watchPaths # <<>>
  /\ steps # <<>>
  /\ expansions # <<>>


\* ------------------------------------------------------------------ C35
\* the declared packages buildPackage finds no manifest for: the package
\* path is missing, package.json is missing, or it does not parse
NoManifest ==
  {p \in Declared : fs[p].status \in {"nopath", "missing", "unparseable"}}

CallsFor(p) == SelectSeq(calls, LAMBDA c : c.name = p)

\* buildPackage ran its command for p and both links followed as far as the
\* step before succeeded
BuiltAndLinked(p) ==
  LET cs == CallsFor(p)
  IN /\ cs # <<>>
     /\ cs[1].op = "build"
     /\ [i \in 1..Len(cs) |-> cs[i].op] =
          IF ~cs[1].ok THEN <<"build">>
          ELSE IF ~cs[2].ok THEN <<"build", "globalLink">>
          ELSE <<"build", "globalLink", "projectLink">>

\* C35: when a declared package has no readable manifest, then with and
\* without dependency resolution no build command is run and no link step
\* is invoked for it, linkAllPackages returns false, and every other
\* declared package is still built and linked.
C35_UnreadablePackageSkipped ==
  /\ \A p \in NoManifest :
       /\ \A i \in 1..Len(calls) :
            calls[i].name = p =>
              (calls[i].op = "build" /\ calls[i].run = Null /\ ~calls[i].ok)
       /\ Returned => result = <<FALSE>>
  /\ (Returned /\ NoManifest # {}) =>
       \A q \in Declared \ NoManifest :
         /\ BuiltAndLinked(q)
         /\ commandRun(q) # Null => CallsFor(q)[1].run # Null

\* with dependency resolution: the first package's package.json does not
\* parse although it carries a custom build command, and another package
\* was built by a command and linked
C35_Witness ==
  /\ Returned
  /\ resolveDependencies
  /\ Len(localPackages) >= 2
  /\ fs[1].status = "unparseable"
  /\ configOf(1).buildCommand # Null
  /\ \E q \in Declared :
       /\ Succeeded("projectLink", q)
       /\ CallsFor(q)[1].run # Null


\* ------------------------------------------------------------------ C36
\* C36: without resolveDependencies linkAllPackages processes the packages
\* in declaration order whatever the manifests' dependency lists say: no
\* graph is built, nothing is visited, no cycle warning and no
\* missing-packages warning is emitted, and the builds are invoked in
\* declaration order.
C36_PlainModeKeepsDeclarationOrder ==
  ~resolveDependencies =>
    /\ graph = <<>>
    /\ visited = {} /\ temp = {} /\ order = <<>> /\ stack = <<>>
    /\ cycleWarnings = <<>> /\ backEdges = <<>> /\ missingWarnings = <<>>
    /\ pc \in {"start", "build", "glink", "plink", "done"}
    /\ (pc # "start" /\ localPackages # <<>>) => packageOrder = localPackages
    /\ [i \in 1..Len(BuildCalls) |-> BuildCalls[i].name] =
         SubSeq(localPackages, 1, Len(BuildCalls))
    /\ Returned => Len(BuildCalls) = Len(localPackages)

\* without dependency resolution a package declared before the package it
\* depends on was built and linked before it
C36_Witness ==
  /\ ~resolveDependencies
  /\ Returned
  /\ \E a, b \in Declared :
       /\ Dep(a, b)
       /\ Pos(localPackages, a) < Pos(localPackages, b)
       /\ Succeeded("projectLink", a) /\ Succeeded("projectLink", b)
       /\ \A i, j \in 1..Len(calls) :
            (calls[i].name = a /\ calls[j].name = b) => i < j


\* ------------------------------------------------------------------ C37
\* C37: with an empty declaration set linkAllPackages returns false without
\* a build or link step and without building a dependency graph, and
\* watchPackages returns without creating a watcher or arming a timer.
C37_EmptySetDoesNothing ==
  localPackages = <<>> =>
    /\ calls = <<>> /\ failures = 0
    /\ graph = <<>> /\ packageOrder = <<>>
    /\ visited = {} /\ temp = {} /\ order = <<>> /\ stack = <<>>
    /\ cycleWarnings = <<>> /\ missingWarnings = <<>>
    /\ pc \in {"start", "done", "watch", "exit"}
    /\ pc = "start" => result = Null
    /\ pc # "start" => result = <<FALSE>>
    /\ watchPaths = <<>> /\ debounce = <<>>
    /\ timers = <<>> /\ nextTimer = 1 /\ events = <<>>

\* both functions have returned on the empty set, dependency resolution
\* having been asked for
C37_Witness ==
  /\ localPackages = <<>>
  /\ resolveDependencies
  /\ result = <<FALSE>>
  /\ pc = "exit"


\* ------------------------------------------------------------------ C38
\* the custom build command of p's declaration, Null when it has none
CustomOf(p) ==
  LET ds == declared[ProjectRoot]
  IN ds[CHOOSE i \in 1..Len(ds) : ds[i].name = p].buildCommand

HasManifest(p) == fs[p].status = "ok"

\* C38: with a readable manifest, no custom build command and no build
\* script buildPackage returns true and runs no command; with a custom
\* build command that command is what is run, whether or not the manifest
\* has a build script, and buildPackage returns the result of that run.
C38_BuildCommandChoice ==
  \A i \in 1..Len(calls) :
    calls[i].op = "build" =>
      LET p == calls[i].name
      IN /\ (HasManifest(p) /\ CustomOf(p) = Null /\ fs[p].buildScript = Null)
              => (calls[i].ok /\ calls[i].run = Null)
         /\ (HasManifest(p) /\ CustomOf(p) # Null)
              => /\ calls[i].run # Null
                 /\ calls[i].run[1].cmd = CustomOf(p)[1]
                 /\ calls[i].ok = calls[i].run[1].ok

\* one package with a build script and a custom command, whose run failed,
\* and one with neither, which was linked
C38_Witness ==
  /\ Returned
  /\ \E p, q \in Declared :
       /\ HasManifest(p) /\ CustomOf(p) # Null /\ fs[p].buildScript # Null
       /\ CallsFor(p) = <<[op |-> "build", name |-> p, ok |-> FALSE,
                           run |-> <<[cmd |-> CustomCommand, ok |-> FALSE]>>]>>
       /\ HasManifest(q) /\ CustomOf(q) = Null /\ fs[q].buildScript = Null
       /\ CallsFor(q)[1].run = Null
       /\ Succeeded("projectLink", q)


\* ------------------------------------------------------------------ C39
\* the keys of the graph handed to getTopologicalOrder
GraphKeySet == {graph[i].name : i \in 1..Len(graph)}

\* C39: throughout getTopologicalOrder the in-progress set and the done set
\* are disjoint, the in-progress set is the set of names on the recursion
\* stack, each of them once, a name is in the output if and only if it is
\* done, and at the return nothing is in progress and every graph key is
\* done.
C39_VisitStatesPartitionNames ==
  /\ temp \cap visited = {}
  /\ temp = Range(OnStack)
  /\ NoDuplicates(OnStack)
  /\ Range(order) = visited
  /\ NoDuplicates(order)
  /\ temp \cup visited \subseteq GraphKeySet
  /\ (resolveDependencies /\ pc \notin {"start", "visit", "thrown"}) =>
       (temp = {} /\ stack = <<>> /\ visited = GraphKeySet)

\* one package is done and two more are in progress, the inner one having
\* met the outer one again
C39_Witness ==
  /\ pc = "visit"
  /\ Len(stack) = 2
  /\ visited # {}
  /\ cycleWarnings # <<>>

====
